---- MODULE Spec2Model ----
(***************************************************************************)
(* Verification model of the flare measurement pipeline:                   *)
(*   - unpack_mipi_raw10      (src/unpack_mipi_raw10.py)                   *)
(*   - load_raw16_image, ROI, load_roi_set, save_roi_set,                  *)
(*     _clip_roi_bounds       (src/flare_automation/analysis/roi.py)       *)
(*   - the converter's __main__ followed by the engine's load of the file  *)
(*     it wrote               (src/flare_automation/workflow.py,           *)
(*                             src/flare_automation/raw_conversion.py)     *)
(*   - _nd_normalisation_factor, _roi_mean, _measure_capture,              *)
(*     _linear_fit, _generate_diagnostic_plot, analyze_photo_response      *)
(*                            (src/flare_automation/analysis/              *)
(*                             photo_response.py)                          *)
(* NumPy arrays are sequences; a 2-D array is a sequence of rows.          *)
(* Python floats that the code only compares or divides are kept as exact  *)
(* rationals [num, den] with den > 0.                                      *)
(***************************************************************************)
EXTENDS Integers, Sequences, FiniteSets, TLC

VARIABLES
    pc,          \* position of the caller: "call" before the operation, "done" after
    input_raw,   \* unpack_mipi_raw10: the packed byte buffer (uint8 values)
    width,       \* declared pixel width  (decoder -x, loader width=)
    height,      \* declared pixel height (decoder -y, loader height=)
    stride,      \* declared stride (decoder -s, loader stride=, where 0 also stands for None)
    header,      \* unpack_mipi_raw10: header bytes to skip (-d)
    ret,         \* unpack_mipi_raw10: what the function returned and printed
    path_exists, \* load_raw16_image: path.exists()
    data,        \* load_raw16_image: the 16-bit samples np.fromfile reads from the path
    image,       \* load_raw16_image: the array returned or the exception raised
    metadata,    \* _nd_normalisation_factor: the capture metadata mapping
    nd_out,      \* _nd_normalisation_factor: the factor returned or the exception raised
    records,     \* analyze_photo_response: the capture records of the batch
    rois,        \* analyze_photo_response: the ROIs
    saturation_threshold,  \* analyze_photo_response: the threshold (DN)
    next_record, \* analyze_photo_response: position of the loop over records (1-based)
    all_measurements,      \* analyze_photo_response: the measurements collected so far
    base_dir_exists,       \* analyze_photo_response: base_dir.mkdir(...) was done
    csv_rows,    \* photo_response_measurements.csv: whether written, and its rows
    fit_queue,   \* the items of sorted(by_roi.items()) the fit loop has yet to take
    exposures,   \* the fit loop's local: the sorted exposures of the ROI in hand
    averaged,    \* the fit loop's local: the averaged value at each of exposures
    fits,        \* the RoiFitResult list built so far
    plots,       \* the diagnostic plots saved so far
    summary,     \* photo_response_summary.json: whether written, and its payload
    roi_args,    \* ROI model: the (name, center, size) arguments ROIs are built from
    roi_file,    \* ROI model: rois.json, whether it exists and its JSON payload
    loaded_rois, \* ROI model: what load_roi_set returned or raised
    clip_out     \* ROI model: bounds() and _clip_roi_bounds of each ROI on the frame

vars == <<pc, input_raw, width, height, stride, header, ret, path_exists, data, image,
          metadata, nd_out, records, rois, saturation_threshold, next_record,
          all_measurements, base_dir_exists, csv_rows, fit_queue, exposures, averaged,
          fits, plots, summary, roi_args, roi_file, loaded_rois, clip_out>>

\* The variables of the ROI model.
roi_vars == <<roi_args, roi_file, loaded_rois, clip_out>>

\* The variables of the output and fit stage of analyze_photo_response.
fit_vars == <<csv_rows, fit_queue, exposures, averaged, fits, plots, summary>>

---------------------------------------------------------------------------
(* Bounds of the model.                                                    *)

MaxWidth == 8
MaxHeight == 2
MaxStride == 11
MaxHeader == 1
MaxBytes == 23
MaxPattern == 3
MaxSamples == 12
MaxKeys == 3
MaxRecords == 2
FrameWidth == 4
FrameHeight == 3
MaxSweep == 3
MaxRois == 3

---------------------------------------------------------------------------
(* Generic helpers: Python / NumPy slicing on sequences.                   *)

Min(a, b) == IF a <= b THEN a ELSE b
Max(a, b) == IF a >= b THEN a ELSE b

\* s[0:n] for n >= 0: slicing never raises, it stops at the end of s.
Take(s, n) == SubSeq(s, 1, Min(Max(n, 0), Len(s)))

\* s[n::] for n >= 0.
Drop(s, n) == SubSeq(s, Min(n, Len(s)) + 1, Len(s))

\* Number of elements of range(start, n, step), start >= 0, step > 0.
SliceLen(n, start, step) == IF start >= n THEN 0 ELSE (n - start + step - 1) \div step

\* s[start::step], start is 0-based.
Every(s, start, step) ==
    [j \in 1..SliceLen(Len(s), start, step) |-> s[start + (j - 1) * step + 1]]

\* NumPy broadcasting of two 1-D shapes (m,) and (n,).
Broadcastable(m, n) == m = n \/ m = 1 \/ n = 1
BroadcastLen(m, n) == IF m = 1 THEN n ELSE m
At(s, j) == IF Len(s) = 1 THEN s[1] ELSE s[j]

\* a.reshape((rows, cols)) of a 1-D array; valid only when Len(a) = rows * cols.
Reshape(a, rows, cols) == [r \in 1..rows |-> SubSeq(a, (r - 1) * cols + 1, r * cols)]

RECURSIVE Flatten(_)
\* a.flatten() of a 2-D array (row-major).
Flatten(rows) == IF rows = <<>> THEN <<>> ELSE Head(rows) \o Flatten(Tail(rows))

\* a[::, :n:] of a 2-D array.
TrimColumns(rows, n) == [r \in 1..Len(rows) |-> Take(rows[r], n)]

RECURSIVE Pow2(_)
Pow2(k) == IF k = 0 THEN 1 ELSE 2 * Pow2(k - 1)

\* Faulty variant of ShiftAnd3: the right shift is dropped.
ShiftAnd3_NoShift(b, k) == b % 4

\* np.bitwise_and(np.right_shift(b, k), 3) on one element.
ShiftAnd3(b, k) == (b \div Pow2(k)) % 4

---------------------------------------------------------------------------
(* unpack_mipi_raw10 (src/unpack_mipi_raw10.py).                           *)

\* The value returned when an exception was caught: ret stays -1 and the
\* handler prints the exception's message.
Caught(msg) == [kind |-> "minus1", value |-> <<>>, printed |-> msg]
Returned(grid) == [kind |-> "array", value |-> grid, printed |-> ""]

MsgSize == "file size does not match width * height"
MsgStrideSize == "MIPI RAW10 file size should be multiple of stride"
MsgStrideWidth == "stride and width setting do not match"
MsgBroadcast == "operands could not be broadcast together"
MsgReshape == "cannot reshape array"

\* raw_i * 4 + bitwise_and(right_shift(low_bits, k), 3), lines 33-36.  The
\* operands are uint8 values widened to uint32 (line 27): the sum is at most
\* 255 * 4 + 3 and never wraps.
Combine(raw_i, low_bits, k) ==
    [j \in 1..BroadcastLen(Len(raw_i), Len(low_bits)) |->
        At(raw_i, j) * 4 + ShiftAnd3(At(low_bits, j), k)]

\* upack_raw[i::4] = raw_i for i = 0..3, lines 38-42 (sizes already checked).
Interleave(n, r1, r2, r3, r4) ==
    [p \in 1..n |->
        LET g == (p - 1) \div 4 + 1
            i == (p - 1) % 4
        IN  CASE i = 0 -> At(r1, g)
              [] i = 1 -> At(r2, g)
              [] i = 2 -> At(r3, g)
              [] OTHER -> At(r4, g)]

\* np.where(upack_raw > 1023, 1023, upack_raw).astype(np.uint16), lines 44-45.
Clamp(a) == [p \in 1..Len(a) |-> (IF a[p] > 1023 THEN 1023 ELSE a[p]) % 65536]

\* Lines 46-51: trim to width when temp_width*4/5 != width, then reshape.
\* temp_width is the rational tw_num / tw_den.
TrimAndShape(upack_raw, tw_num, tw_den, width_, height_) ==
    IF 4 * tw_num # 5 * tw_den * width_
    THEN LET cols == (4 * tw_num) \div (5 * tw_den)
         IN  IF Len(upack_raw) # height_ * cols
             THEN Caught(MsgReshape)
             ELSE LET trimmed == Flatten(TrimColumns(Reshape(upack_raw, height_, cols), width_))
                  IN  IF Len(trimmed) # height_ * width_
                      THEN Caught(MsgReshape)
                      ELSE Returned(Reshape(trimmed, height_, width_))
    ELSE IF Len(upack_raw) # height_ * width_
         THEN Caught(MsgReshape)
         ELSE Returned(Reshape(upack_raw, height_, width_))

\* Lines 27-51: the unpacking proper, on the participating bytes raw.
Unpack(raw, tw_num, tw_den, width_, height_) ==
    LET raw1 == Every(raw, 0, 5)
        raw2 == Every(raw, 1, 5)
        raw3 == Every(raw, 2, 5)
        raw4 == Every(raw, 3, 5)
        low_bits == Every(raw, 4, 5)
        n == (4 * Len(raw)) \div 5
    IN  IF \E r \in {raw1, raw2, raw3, raw4} : ~Broadcastable(Len(r), Len(low_bits))
        THEN Caught(MsgBroadcast)
        ELSE LET r1 == Combine(raw1, low_bits, 0)
                 r2 == Combine(raw2, low_bits, 2)
                 r3 == Combine(raw3, low_bits, 4)
                 r4 == Combine(raw4, low_bits, 6)
             IN  IF \/ ~(Len(r1) = SliceLen(n, 0, 4) \/ Len(r1) = 1)
                    \/ ~(Len(r2) = SliceLen(n, 1, 4) \/ Len(r2) = 1)
                    \/ ~(Len(r3) = SliceLen(n, 2, 4) \/ Len(r3) = 1)
                    \/ ~(Len(r4) = SliceLen(n, 3, 4) \/ Len(r4) = 1)
                 THEN Caught(MsgBroadcast)
                 ELSE TrimAndShape(Clamp(Interleave(n, r1, r2, r3, r4)),
                                   tw_num, tw_den, width_, height_)

\* Line 12: raw.size*4/5 < width*height, as integers.
NoStrideTooSmall(size, width_, height_) == 4 * size < 5 * width_ * height_

\* Faulty variant of StrideTooSmall: the bound is off by one.
StrideTooSmall_OffByOne(size, stride_, height_) == size < stride_ * height_ - 1

\* Line 17: raw.size < stride*height.
StrideTooSmall(size, stride_, height_) == size < stride_ * height_

\* Faulty variant of StrideWidthMismatch: the 4/5 ratio is inverted.
StrideWidthMismatch_Inverted(stride_, width_) == 5 * stride_ < 4 * width_

\* Line 19: stride * 4 / 5 < width, as integers.
StrideWidthMismatch(stride_, width_) == 4 * stride_ < 5 * width_

\* Faulty variant of UnpackRows: rows are taken to follow each other without
\* padding, at a pitch of temp_width bytes.
UnpackRows_NoPadding(raw, width_, stride_, height_) ==
    LET temp_width == (stride_ \div 5) * 5
    IN  Unpack(Take(raw, temp_width * height_), temp_width, 1, width_, height_)

\* Lines 21-27: the participating bytes in stride mode, then the unpacking.
\* raw[0:stride*height].reshape((height, stride)) raises when the slice is
\* shorter than stride*height.
UnpackRows(raw, width_, stride_, height_) ==
    LET cut == Take(raw, stride_ * height_)
        temp_width == (stride_ \div 5) * 5
    IN  IF Len(cut) # height_ * stride_
        THEN Caught(MsgReshape)
        ELSE Unpack(Flatten(TrimColumns(Reshape(cut, height_, stride_), temp_width)),
                    temp_width, 1, width_, height_)

unpack_mipi_raw10(input_raw_, width_, stride_, height_, header_) ==
    LET raw == Drop(input_raw_, header_)
    IN  IF stride_ <= 0
        THEN IF NoStrideTooSmall(Len(raw), width_, height_)
             THEN Caught(MsgSize)
             ELSE Unpack(Take(raw, (5 * width_ * height_) \div 4),
                         5 * width_, 4, width_, height_)
        ELSE IF StrideTooSmall(Len(raw), stride_, height_)
             THEN Caught(MsgStrideSize)
             ELSE IF StrideWidthMismatch(stride_, width_)
                  THEN Caught(MsgStrideWidth)
                  ELSE UnpackRows(raw, width_, stride_, height_)

---------------------------------------------------------------------------
(* Inputs of the decoder.                                                  *)

\* Byte k (1-based) of test pattern p: pattern 0 is all 0x00, pattern 1 all
\* 0xFF, the others change from byte to byte.
PatternByte(p, k) == (255 * p + (p \div 2) * 53 * k) % 256
Pattern(p, n) == [k \in 1..n |-> PatternByte(p, k)]

NotRun == [kind |-> "none", value |-> <<>>, printed |-> ""]

DecoderIdle ==
    /\ input_raw = <<>>
    /\ header = 0
    /\ ret = NotRun

LoaderIdle ==
    /\ path_exists = FALSE
    /\ data = <<>>
    /\ image = NotRun

NdIdle ==
    /\ metadata = <<>>
    /\ nd_out = NotRun

\* No rois.json, nothing built, loaded or clipped.
NoFile == [exists |-> FALSE, is_array |-> FALSE, payload |-> <<>>]
RoiIdle ==
    /\ roi_args = <<>>
    /\ roi_file = NoFile
    /\ loaded_rois = NotRun
    /\ clip_out = <<>>

NotWritten == [written |-> FALSE, content |-> <<>>]
Written(content_) == [written |-> TRUE, content |-> content_]

\* Nothing created, written or fitted yet.
FitIdle ==
    /\ base_dir_exists = FALSE
    /\ csv_rows = NotWritten
    /\ fit_queue = <<>>
    /\ exposures = <<>>
    /\ averaged = <<>>
    /\ fits = <<>>
    /\ plots = <<>>
    /\ summary = NotWritten

EngineIdle ==
    /\ records = <<>>
    /\ rois = <<>>
    /\ saturation_threshold = 0
    /\ next_record = 0
    /\ all_measurements = <<>>
    /\ FitIdle

InitUnpack ==
    /\ pc = "call"
    /\ \E p \in 0..MaxPattern, n \in 0..MaxBytes : input_raw = Pattern(p, n)
    /\ width \in 1..MaxWidth
    /\ height \in 1..MaxHeight
    /\ stride \in 0..MaxStride
    /\ header \in 0..MaxHeader
    /\ ret = NotRun
    /\ LoaderIdle
    /\ NdIdle
    /\ EngineIdle
    /\ RoiIdle

\* __main__, line 83: the one call of the decoder.
CallUnpack ==
    /\ pc = "call"
    /\ ret' = unpack_mipi_raw10(input_raw, width, stride, height, header)
    /\ pc' = "done"
    /\ UNCHANGED <<input_raw, width, height, stride, header, path_exists, data, image,
                   metadata, nd_out, records, rois, saturation_threshold,
                   next_record, all_measurements>>
    /\ UNCHANGED <<base_dir_exists, fit_vars, roi_vars>>

NextUnpack == CallUnpack

SpecUnpack == InitUnpack /\ [][NextUnpack]_vars

---------------------------------------------------------------------------
(* load_raw16_image (src/flare_automation/analysis/roi.py).                *)

Raised(exc) == [kind |-> exc, value |-> <<>>, printed |-> ""]

\* Faulty variant of Raw16TooSmall: a file of exactly the expected size is refused.
Raw16TooSmall_Strict(size, expected_pixels) == size <= expected_pixels

\* Line 112: data.size < expected_pixels.
Raw16TooSmall(size, expected_pixels) == size < expected_pixels

load_raw16_image(exists_, data_, width_, height_, stride_) ==
    IF ~exists_
    THEN Raised("FileNotFoundError")
    ELSE LET stride_used == IF stride_ = 0 THEN width_ ELSE stride_
             expected_pixels == stride_used * height_
         IN  IF Raw16TooSmall(Len(data_), expected_pixels)
             THEN Raised("ValueError")
             ELSE LET cut == Take(data_, expected_pixels)
                  IN  IF Len(cut) # height_ * stride_used
                      THEN Raised("ValueError")
                      ELSE LET full == Reshape(cut, height_, stride_used)
                           IN  IF stride_used # width_
                               THEN Returned(TrimColumns(full, width_))
                               ELSE Returned(full)

\* Sample k (1-based) of test file p: every position holds another value.
FileSample(p, k) == (1000 * p + 7 * k) % 65536
FileData(p, n) == [k \in 1..n |-> FileSample(p, k)]

InitLoad ==
    /\ pc = "call"
    /\ path_exists \in BOOLEAN
    /\ \E p \in 0..1, n \in 0..MaxSamples : data = IF path_exists THEN FileData(p, n) ELSE <<>>
    /\ width \in 1..MaxWidth
    /\ height \in 1..MaxHeight
    /\ stride \in 0..MaxStride
    /\ image = NotRun
    /\ DecoderIdle
    /\ NdIdle
    /\ EngineIdle
    /\ RoiIdle

\* _measure_capture, line 203: one call of the loader.
CallLoad ==
    /\ pc = "call"
    /\ image' = load_raw16_image(path_exists, data, width, height, stride)
    /\ pc' = "done"
    /\ UNCHANGED <<input_raw, width, height, stride, header, ret, path_exists, data,
                   metadata, nd_out, records, rois, saturation_threshold,
                   next_record, all_measurements>>
    /\ UNCHANGED <<base_dir_exists, fit_vars, roi_vars>>

NextLoad == CallLoad

SpecLoad == InitLoad /\ [][NextLoad]_vars

---------------------------------------------------------------------------
(* The capture workflow's conversion of a frame followed by the engine's   *)
(* load of the converted file (workflow.py, raw_conversion.py,             *)
(* unpack_mipi_raw10.py __main__, photo_response.py).                      *)

\* convert_raw10_to_raw16 runs the converter with -x raw_width -y raw_height
\* -s raw_stride and no -d: the header size is the default, 0.
InitConvert ==
    /\ InitUnpack
    /\ header = 0

\* __main__, lines 84-88, with image_file = 0: the returned array goes to the
\* output file as 16-bit samples; the -1 of a failed decode has no tofile and
\* the converter ends with an exception, no file written.
WriteOutput ==
    /\ pc = "done"
    /\ IF ret.kind = "array"
       THEN /\ data' = Flatten(ret.value)
            /\ path_exists' = TRUE
            /\ pc' = "written"
       ELSE /\ UNCHANGED <<data, path_exists>>
            /\ pc' = "crashed"
    /\ UNCHANGED <<input_raw, width, height, stride, header, ret, image,
                   metadata, nd_out, records, rois, saturation_threshold,
                   next_record, all_measurements>>
    /\ UNCHANGED <<base_dir_exists, fit_vars, roi_vars>>

\* _measure_capture, lines 186-188 and 203: the converted frame is loaded with
\* the configuration's raw_width, raw_height and raw_stride.
LoadConverted ==
    /\ pc = "written"
    /\ image' = load_raw16_image(path_exists, data, width, height, stride)
    /\ pc' = "loaded"
    /\ UNCHANGED <<input_raw, width, height, stride, header, ret, path_exists, data,
                   metadata, nd_out, records, rois, saturation_threshold,
                   next_record, all_measurements>>
    /\ UNCHANGED <<base_dir_exists, fit_vars, roi_vars>>

NextConvert == CallUnpack \/ WriteOutput \/ LoadConverted

SpecConvert == InitConvert /\ [][NextConvert]_vars

---------------------------------------------------------------------------
(* _nd_normalisation_factor (src/flare_automation/analysis/photo_response.py). *)

(* Metadata values.  A JSON value is one of                                 *)
(*   [t |-> "none"]            null (what .get gives for an absent key too) *)
(*   [t |-> "text"]            a value float() refuses (TypeError or        *)
(*                             ValueError), e.g. "abc" or a list            *)
(*   [t |-> "nan"]             NaN, or the string "nan"                     *)
(*   [t |-> "num", num, den]   the finite number num/den, den > 0           *)
(*   [t |-> "map", map |-> f]  a nested mapping                             *)
(* A mapping is a function from the keys it holds to their values.          *)
NoneValue == [t |-> "none", num |-> 0, den |-> 1]
TextValue == [t |-> "text", num |-> 0, den |-> 1]
NaN == [t |-> "nan", num |-> 0, den |-> 1]
Num(n, d) == [t |-> "num", num |-> n, den |-> d]
One == Num(1, 1)
MapValue(f) == [t |-> "map", num |-> 0, den |-> 1, map |-> f]

\* mapping.get(key)
Get(mapping, key) == IF key \in DOMAIN mapping THEN mapping[key] ELSE NoneValue

\* float(value) succeeds.
Coercible(value) == value.t \in {"num", "nan"}

\* factor <= 0 and factor > 0 on floats: both are False for NaN.
LeqZero(factor) == factor.t = "num" /\ factor.num <= 0
GtZero(factor) == factor.t = "num" /\ factor.num > 0

RECURSIVE Pow10(_)
Pow10(k) == IF k = 0 THEN 1 ELSE 10 * Pow10(k - 1)

\* 10 ** (-density) on floats, for a whole-number density: the power of a
\* double overflows past 1e308 (Python raises OverflowError) and underflows
\* to 0.0 below 1e-323.
TenToMinus(density) ==
    IF density.t = "nan" THEN NaN
    ELSE IF density.num <= -309 THEN [t |-> "OverflowError", num |-> 0, den |-> 1]
    ELSE IF density.num >= 324 THEN Num(0, 1)
    ELSE IF density.num >= 0 THEN Num(1, Pow10(density.num))
    ELSE Num(Pow10(-density.num), 1)

\* What a loop over candidate keys gives when no key returned.
FellThrough == [t |-> "fellthrough", num |-> 0, den |-> 1]

direct_keys == <<"nd_factor", "nd_attenuation", "attenuation", "transmission">>
filter_factor_keys == <<"factor", "nd_factor", "attenuation", "transmission">>
filter_density_keys == <<"nd_density", "density", "optical_density">>

RECURSIVE DirectLoop(_, _)
\* Lines 91-103: the loop over the top-level factor keys.
DirectLoop(mapping, keys) ==
    IF keys = <<>> THEN FellThrough
    ELSE LET value == Get(mapping, Head(keys))
         IN  IF value.t = "none" THEN DirectLoop(mapping, Tail(keys))
             ELSE IF ~Coercible(value) THEN DirectLoop(mapping, Tail(keys))
             ELSE IF LeqZero(value) THEN DirectLoop(mapping, Tail(keys))
             ELSE value

RECURSIVE FilterFactorLoop(_, _)
\* Lines 108-118: the loop over the factor keys of the nd_filter block.
FilterFactorLoop(nd_filter, keys) ==
    IF keys = <<>> THEN FellThrough
    ELSE LET value == Get(nd_filter, Head(keys))
         IN  IF value.t = "none" THEN FilterFactorLoop(nd_filter, Tail(keys))
             ELSE IF ~Coercible(value) THEN FilterFactorLoop(nd_filter, Tail(keys))
             ELSE IF GtZero(value) THEN value
             ELSE FilterFactorLoop(nd_filter, Tail(keys))

RECURSIVE FilterDensityLoop(_, _)
\* Lines 120-131: the loop over the density keys of the nd_filter block.
FilterDensityLoop(nd_filter, keys) ==
    IF keys = <<>> THEN FellThrough
    ELSE LET value == Get(nd_filter, Head(keys))
         IN  IF value.t = "none" THEN FilterDensityLoop(nd_filter, Tail(keys))
             ELSE IF ~Coercible(value) THEN FilterDensityLoop(nd_filter, Tail(keys))
             ELSE LET factor == TenToMinus(value)
                  IN  IF factor.t = "OverflowError" THEN factor
                      ELSE IF GtZero(factor) THEN factor
                      ELSE FilterDensityLoop(nd_filter, Tail(keys))

\* TopDensity without the conversion of lines 133-142.
TopDensity_Ignored(mapping) == One

\* Lines 133-144: the top-level nd_density key, then the fallback 1.0.
TopDensity(mapping) ==
    LET density_value == Get(mapping, "nd_density")
    IN  IF density_value.t = "none" \/ ~Coercible(density_value) THEN One
        ELSE LET factor == TenToMinus(density_value)
             IN  IF factor.t = "OverflowError" THEN factor
                 ELSE IF GtZero(factor) THEN factor
                 ELSE One

\* Lines 105-131: the nd_filter block, when it is a mapping.
FilterBlock(mapping) ==
    LET nd_filter == Get(mapping, "nd_filter")
    IN  IF nd_filter.t # "map" THEN FellThrough
        ELSE LET explicit == FilterFactorLoop(nd_filter.map, filter_factor_keys)
             IN  IF explicit.t # "fellthrough" THEN explicit
                 ELSE FilterDensityLoop(nd_filter.map, filter_density_keys)

_nd_normalisation_factor(mapping) ==
    IF DOMAIN mapping = {} THEN One
    ELSE LET direct == DirectLoop(mapping, direct_keys)
         IN  IF direct.t # "fellthrough" THEN direct
             ELSE LET nested == FilterBlock(mapping)
                  IN  IF nested.t # "fellthrough" THEN nested
                      ELSE TopDensity(mapping)

---------------------------------------------------------------------------
(* Inputs of the ND factor derivation.                                     *)

\* A slot is one place of the metadata that may hold a candidate: <<"top", key>>
\* or <<"nd_filter", key>>.  <<"top", "nd_filter">> holding a scalar stands for
\* an nd_filter value that is not a mapping.
TopSlots == {<<"top", k>> : k \in {"nd_factor", "nd_attenuation", "attenuation",
                                   "transmission", "nd_density", "density",
                                   "optical_density", "nd_filter"}}
FilterSlots == {<<"nd_filter", k>> : k \in {"factor", "nd_factor", "attenuation",
                                            "transmission", "nd_density", "density",
                                            "optical_density"}}
Slots == TopSlots \cup FilterSlots

IsDensityKey(k) == k \in {"nd_density", "density", "optical_density"}

\* Every slot has a valid value of its own, so the result tells which slot won:
\* factor slots hold rank/16, density slots hold the density rank.
SlotRank(slot) ==
    LET k == slot[2]
        base == CASE k = "nd_factor" -> 1 [] k = "nd_attenuation" -> 2
                  [] k = "attenuation" -> 3 [] k = "transmission" -> 4
                  [] k = "factor" -> 5 [] k = "nd_density" -> 1
                  [] k = "density" -> 2 [] k = "optical_density" -> 3
                  [] OTHER -> 6
    IN  IF slot[1] = "top" THEN base ELSE base + 6

SlotValues(slot) ==
    IF IsDensityKey(slot[2])
    THEN {TextValue, NaN, Num(SlotRank(slot), 1), Num(-1, 1), Num(400, 1), Num(-400, 1)}
    ELSE {TextValue, NaN, Num(SlotRank(slot), 16), Num(0, 1), Num(-1, 2)}

\* The mapping that holds exactly the chosen slots with the chosen values.
BuildMetadata(chosen, val) ==
    LET top == {s[2] : s \in chosen \cap TopSlots}
        inner == {s[2] : s \in chosen \cap FilterSlots}
        filter == [k \in inner |-> val[<<"nd_filter", k>>]]
        topkeys == IF inner = {} THEN top ELSE top \cup {"nd_filter"}
    IN  [k \in topkeys |->
            IF k = "nd_filter" /\ inner # {} THEN MapValue(filter) ELSE val[<<"top", k>>]]

InitNd ==
    /\ pc = "call"
    /\ \E chosen \in SUBSET Slots :
        /\ Cardinality(chosen) <= MaxKeys
        /\ ~(<<"top", "nd_filter">> \in chosen /\ chosen \cap FilterSlots # {})
        /\ \E val \in [chosen -> UNION {SlotValues(s) : s \in chosen}] :
            /\ \A s \in chosen : val[s] \in SlotValues(s)
            /\ metadata = BuildMetadata(chosen, val)
    /\ nd_out = NotRun
    /\ width = 0 /\ height = 0 /\ stride = 0
    /\ DecoderIdle
    /\ LoaderIdle
    /\ EngineIdle
    /\ RoiIdle

\* _measure_capture, line 190: the one call per record.
CallNd ==
    /\ pc = "call"
    /\ nd_out' = _nd_normalisation_factor(metadata)
    /\ pc' = "done"
    /\ UNCHANGED <<input_raw, width, height, stride, header, ret, path_exists, data,
                   image, metadata, records, rois, saturation_threshold,
                   next_record, all_measurements>>
    /\ UNCHANGED <<base_dir_exists, fit_vars, roi_vars>>

NextNd == CallNd

SpecNd == InitNd /\ [][NextNd]_vars

---------------------------------------------------------------------------
(* ROI.bounds, _roi_mean, _list_raw16_frames, _measure_capture and the     *)
(* measuring part of analyze_photo_response.                               *)

RECURSIVE GCD(_, _)
GCD(a, b) == IF b = 0 THEN a ELSE GCD(b, a % b)

\* The float n/d for n >= 0, d > 0, in lowest terms.
Rat(n, d) == Num(n \div GCD(n, d), d \div GCD(n, d))

RECURSIVE SumSeq(_)
SumSeq(a) == IF a = <<>> THEN 0 ELSE Head(a) + SumSeq(Tail(a))

\* Faulty variant of bounds: the half size is rounded up.
bounds_HalfRoundedUp(roi) ==
    <<roi.center[1] - (roi.size[1] + 1) \div 2, roi.center[2] - (roi.size[2] + 1) \div 2,
      roi.size[1], roi.size[2]>>

\* roi.py lines 55-62: ROI.bounds(); // is floor division and the size is positive.
bounds(roi) ==
    <<roi.center[1] - roi.size[1] \div 2, roi.center[2] - roi.size[2] \div 2,
      roi.size[1], roi.size[2]>>

\* frame.shape[0] and frame.shape[1]
ShapeRows(frame) == Len(frame)
ShapeCols(frame) == IF Len(frame) = 0 THEN 0 ELSE Len(frame[1])

\* Faulty variant of OutsideFrame: the bottom edge is not checked.
OutsideFrame_NoBottom(x0, y0, x1, y1, frame) ==
    x0 < 0 \/ y0 < 0 \/ x1 > ShapeCols(frame)

\* photo_response.py lines 151-156: the condition under which _roi_mean raises.
OutsideFrame(x0, y0, x1, y1, frame) ==
    x0 < 0 \/ y0 < 0 \/ x1 > ShapeCols(frame) \/ y1 > ShapeRows(frame)

\* frame[y0:y1, x0:x1] for y0, x0 >= 0, flattened: slices stop at the array's end.
Region(frame, x0, y0, x1, y1) ==
    Flatten([r \in 1..(Min(y1, ShapeRows(frame)) - y0) |->
                SubSeq(frame[y0 + r], x0 + 1, Min(x1, ShapeCols(frame)))])

\* photo_response.py lines 147-161.
_roi_mean(frame, roi) ==
    LET b == bounds(roi)
        x0 == b[1]
        y0 == b[2]
        x1 == x0 + b[3]
        y1 == y0 + b[4]
    IN  IF OutsideFrame(x0, y0, x1, y1, frame)
        THEN Raised("ValueError")
        ELSE LET region == Region(frame, x0, y0, x1, y1)
             IN  [kind |-> "float", value |-> Rat(SumSeq(region), Len(region)), printed |-> ""]

RECURSIVE SortedByPath_Descending(_)
\* Faulty variant of SortedByPath: the listing in descending path order.
SortedByPath_Descending(files) ==
    IF files = {} THEN <<>>
    ELSE LET first == CHOOSE f \in files : \A g \in files : f.path >= g.path
         IN  <<first>> \o SortedByPath_Descending(files \ {first})

RECURSIVE SortedByPath(_)
\* sorted(...) of a set of directory entries, by path.
SortedByPath(files) ==
    IF files = {} THEN <<>>
    ELSE LET first == CHOOSE f \in files : \A g \in files : f.path <= g.path
         IN  <<first>> \o SortedByPath(files \ {first})

\* photo_response.py lines 164-175.
_list_raw16_frames(record) ==
    IF ~record.raw16_dir_exists THEN <<>>
    ELSE SortedByPath({f \in record.raw16_files : f.is_raw_file})

\* Faulty variant of Saturated: the comparison is not strict.
Saturated_NotStrict(mean_dn, threshold) == mean_dn.num >= threshold * mean_dn.den

\* photo_response.py line 213: mean_dn > saturation_threshold.
Saturated(mean_dn, threshold) == mean_dn.num > threshold * mean_dn.den

\* photo_response.py line 214: mean_dn / nd_factor on floats (nd_factor > 0 or NaN).
Normalised(mean_dn, nd_factor) ==
    IF nd_factor.t = "nan" THEN NaN
    ELSE Rat(mean_dn.num * nd_factor.den, mean_dn.den * nd_factor.num)

\* Lines 207-228 for one ROI: no measurement when _roi_mean raised.
MeasureRoi(record, frame_index, frame_path, frame, roi, nd_factor, threshold) ==
    LET mean == _roi_mean(frame, roi)
    IN  IF mean.kind # "float" THEN <<>>
        ELSE <<[exposure_us |-> record.exposure_us,
                frame_index |-> frame_index,
                roi_name |-> roi.name,
                mean_dn |-> mean.value,
                normalised_dn |-> Normalised(mean.value, nd_factor),
                saturated |-> Saturated(mean.value, threshold),
                nd_factor |-> nd_factor,
                source_file |-> <<record.raw16_dir, frame_path>>]>>

RECURSIVE MeasureRois(_, _, _, _, _, _, _)
\* Lines 207-228: the loop over the ROIs for one loaded frame.
MeasureRois(record, frame_index, frame_path, frame, rois_, nd_factor, threshold) ==
    IF rois_ = <<>> THEN <<>>
    ELSE MeasureRoi(record, frame_index, frame_path, frame, Head(rois_), nd_factor, threshold)
         \o MeasureRois(record, frame_index, frame_path, frame, Tail(rois_), nd_factor, threshold)

RECURSIVE MeasureFrames(_, _, _, _, _, _, _, _, _)
\* Lines 201-228: the loop over enumerate(frame_paths, start=1) from frame_index on.
MeasureFrames(record, frame_paths, frame_index, rois_, nd_factor, threshold, width_, height_, stride_) ==
    IF frame_index > Len(frame_paths) THEN <<>>
    ELSE LET file == frame_paths[frame_index]
             frame == load_raw16_image(TRUE, file.data, width_, height_, stride_)
             here == IF frame.kind # "array" THEN <<>>
                     ELSE MeasureRois(record, frame_index, file.path, frame.value,
                                      rois_, nd_factor, threshold)
         IN  here \o MeasureFrames(record, frame_paths, frame_index + 1, rois_,
                                   nd_factor, threshold, width_, height_, stride_)

\* photo_response.py lines 178-236.  An exception of _nd_normalisation_factor
\* is not caught here.
_measure_capture(record, rois_, threshold, width_, height_, stride_) ==
    LET derived == _nd_normalisation_factor(record.capture_metadata)
    IN  IF derived.t = "OverflowError"
        THEN [raised |-> TRUE, measurements |-> <<>>]
        ELSE LET nd_factor == IF LeqZero(derived) THEN One ELSE derived
             IN  [raised |-> FALSE,
                  measurements |-> MeasureFrames(record, _list_raw16_frames(record), 1, rois_,
                                                 nd_factor, threshold, width_, height_, stride_)]

---------------------------------------------------------------------------
(* Inputs of an analysis run.                                              *)

DefaultSaturationThreshold == 600

\* RAW16 test files of n samples.
Uniform(v, n) == [k \in 1..n |-> v]
Mixed(v, n) == [k \in 1..n |-> IF k % 4 = 1 THEN v + 1 ELSE v]
Ramp(n) == [k \in 1..n |-> 50 * k]

RawFile(path_, data_) == [path |-> path_, is_raw_file |-> TRUE, data |-> data_]
OtherFile(path_) == [path |-> path_, is_raw_file |-> FALSE, data |-> <<>>]

\* What a capture can look like on disk for frames of n samples: the RAW16
\* directory (absent, empty or holding files) and the capture metadata.
CaptureChoices(n) ==
    { [dir_exists |-> FALSE, files |-> {}, meta |-> <<>>],
      [dir_exists |-> TRUE, files |-> {}, meta |-> <<>>],
      [dir_exists |-> TRUE, files |-> {RawFile(1, Uniform(400, n))},
       meta |-> [k \in {"nd_factor"} |-> Num(1, 2)]],
      [dir_exists |-> TRUE,
       files |-> {RawFile(2, Mixed(600, n)), RawFile(1, Uniform(100, n - 1))},
       meta |-> <<>>],
      [dir_exists |-> TRUE,
       files |-> {RawFile(3, Ramp(n)), OtherFile(2), RawFile(1, Uniform(600, n))},
       meta |-> [k \in {"nd_filter"} |-> MapValue([j \in {"density"} |-> Num(1, 1)])]],
      [dir_exists |-> TRUE, files |-> {RawFile(1, Mixed(600, n))},
       meta |-> [k \in {"transmission"} |-> Num(2, 1)]],
      [dir_exists |-> TRUE, files |-> {RawFile(1, Uniform(100, n))},
       meta |-> [k \in {"nd_density"} |-> Num(-400, 1)]],
      [dir_exists |-> TRUE, files |-> {RawFile(1, Uniform(100, n))},
       meta |-> [k \in {"nd_factor"} |-> NaN]] }

Exposures == {1000, 2000}

\* The i-th record of a batch, built from a capture choice.
MakeRecord(i, exposure, c) ==
    [exposure_us |-> exposure,
     capture_metadata |-> c.meta,
     raw16_dir |-> i,
     raw16_dir_exists |-> c.dir_exists,
     raw16_files |-> c.files]

Batches(n) ==
    UNION { { [i \in 1..len |-> MakeRecord(i, pick[i][1], pick[i][2])] :
                pick \in [1..len -> Exposures \X CaptureChoices(n)] } :
            len \in 0..MaxRecords }

ROI(name_, center_, size_) == [name |-> name_, center |-> center_, size |-> size_]

\* ROI geometries around a frame of w x h: inside, on the frame's edge, across
\* an edge, larger than the frame, and outside.
Geometries(w, h) ==
    { <<<<2, 1>>, <<2, 2>>>>,
      <<<<1, 1>>, <<3, 3>>>>,
      <<<<w - 1, h - 1>>, <<1, 1>>>>,
      <<<<w \div 2, h \div 2>>, <<w, h>>>>,
      <<<<0, 0>>, <<2, 2>>>>,
      <<<<w, 1>>, <<2, 2>>>>,
      <<<<1, h>>, <<2, 2>>>>,
      <<<<w \div 2, h \div 2>>, <<w + 2, h + 2>>>>,
      <<<<w + 1, 1>>, <<2, 2>>>>,
      <<<<w + 2, 1>>, <<2, 2>>>>,
      <<<<-3, -3>>, <<2, 2>>>> }

PairGeometries(w, h) ==
    { <<<<2, 1>>, <<2, 2>>>>, <<<<w, 1>>, <<2, 2>>>>, <<<<w + 2, 1>>, <<2, 2>>>> }

RoiLists(w, h) ==
    { <<ROI("a", g[1], g[2])>> : g \in Geometries(w, h) }
    \cup { <<ROI("b", g[1], g[2]), ROI("a", k[1], k[2])>> :
             g \in PairGeometries(w, h), k \in PairGeometries(w, h) }

InitAnalyze ==
    /\ pc = "start"
    /\ width = FrameWidth
    /\ height = FrameHeight
    /\ stride \in {0, FrameWidth + 1}
    /\ records \in Batches((IF stride = 0 THEN width ELSE stride) * height)
    /\ rois \in RoiLists(width, height)
    /\ saturation_threshold = DefaultSaturationThreshold
    /\ next_record = 0
    /\ all_measurements = <<>>
    /\ FitIdle
    /\ RoiIdle
    /\ DecoderIdle
    /\ LoaderIdle
    /\ NdIdle

---------------------------------------------------------------------------
(* The output and fit stage of analyze_photo_response (lines 339-441),     *)
(* _linear_fit and _generate_diagnostic_plot.                              *)

\* Arithmetic on the rationals that stand for floats; NaN is absorbing.
RatNorm(n, d) == IF d < 0 THEN Rat(-n, -d) ELSE Rat(n, d)
RatAdd(a, b) ==
    IF a.t = "nan" \/ b.t = "nan" THEN NaN
    ELSE RatNorm(a.num * b.den + b.num * a.den, a.den * b.den)
RatSub(a, b) ==
    IF a.t = "nan" \/ b.t = "nan" THEN NaN
    ELSE RatNorm(a.num * b.den - b.num * a.den, a.den * b.den)
RatMul(a, b) ==
    IF a.t = "nan" \/ b.t = "nan" THEN NaN ELSE RatNorm(a.num * b.num, a.den * b.den)
RatDiv(a, b) ==
    IF a.t = "nan" \/ b.t = "nan" THEN NaN ELSE RatNorm(a.num * b.den, a.den * b.num)
\* Faulty variant of RatPositive: zero counts as positive.
RatPositive_NonNegative(a) == a.t = "num" /\ a.num >= 0

\* value > 0 on a float: False for NaN.
RatPositive(a) == a.t = "num" /\ a.num > 0

RECURSIVE RatSum(_)
RatSum(values) == IF values = <<>> THEN Num(0, 1) ELSE RatAdd(Head(values), RatSum(Tail(values)))

\* np.mean of a non-empty list of floats.
Mean(values) == RatDiv(RatSum(values), Num(Len(values), 1))

\* The order of sorted() on ROI names (strings).
NameRank(name) == CASE name = "a" -> 1 [] name = "b" -> 2 [] OTHER -> 3

RECURSIVE SortedNames(_)
SortedNames(names) ==
    IF names = {} THEN <<>>
    ELSE LET first == CHOOSE n \in names : \A o \in names : NameRank(n) <= NameRank(o)
         IN  <<first>> \o SortedNames(names \ {first})

RECURSIVE SortedInts(_)
\* sorted(exposure_map): the keys in ascending order.
SortedInts(keys) ==
    IF keys = {} THEN <<>>
    ELSE LET first == CHOOSE k \in keys : \A o \in keys : k <= o
         IN  <<first>> \o SortedInts(keys \ {first})

RECURSIVE Where(_, _)
\* a[mask] for a boolean mask of the same length.
Where(a, mask) ==
    IF a = <<>> THEN <<>>
    ELSE (IF Head(mask) THEN <<Head(a)>> ELSE <<>>) \o Where(Tail(a), Tail(mask))

\* Lines 364-367: by_roi[name], the entries of one ROI name in insertion order.
EntriesOf(measurements, name) ==
    LET Named(m) == m.roi_name = name IN SelectSeq(measurements, Named)

\* Line 373: sorted(by_roi.items()).
SortedByRoi(measurements) ==
    LET names == SortedNames({measurements[i].roi_name : i \in 1..Len(measurements)})
    IN  [k \in 1..Len(names) |->
            [roi_name |-> names[k], entries |-> EntriesOf(measurements, names[k])]]

\* Lines 378-382: exposure_map, as its keys and the list kept under a key.
Unsaturated(entries) == LET Usable(m) == ~m.saturated IN SelectSeq(entries, Usable)
ExposureKeys(entries) ==
    {Unsaturated(entries)[i].exposure_us : i \in 1..Len(Unsaturated(entries))}
\* Faulty variant of ExposureGroup: saturated entries are kept in the group.
ExposureGroup_WithSaturated(entries, exposure) ==
    LET At_(m) == m.exposure_us = exposure
        kept == SelectSeq(entries, At_)
    IN  [i \in 1..Len(kept) |-> kept[i].normalised_dn]

ExposureGroup(entries, exposure) ==
    LET At_(m) == ~m.saturated /\ m.exposure_us = exposure
        kept == SelectSeq(entries, At_)
    IN  [i \in 1..Len(kept) |-> kept[i].normalised_dn]

\* Faulty variant of LeastSquares: the line through the first two points.
LeastSquares_FirstTwo(xs, ys) ==
    LET slope == RatDiv(RatSub(ys[2], ys[1]), Num(xs[2] - xs[1], 1))
    IN  <<slope, RatSub(ys[1], RatMul(slope, Num(xs[1], 1)))>>

\* The least-squares line through (xs[i], ys[i]), xs holding 2 or more distinct
\* numbers: the solution of the normal equations, which is what
\* np.linalg.lstsq returns for a matrix of full column rank.
LeastSquares(xs, ys) ==
    LET n == Len(xs)
        sx == SumSeq(xs)
        sxx == SumSeq([i \in 1..n |-> xs[i] * xs[i]])
        sy == RatSum(ys)
        sxy == RatSum([i \in 1..n |-> RatMul(Num(xs[i], 1), ys[i])])
        slope == RatDiv(RatSub(RatMul(Num(n, 1), sxy), RatMul(Num(sx, 1), sy)),
                        Num(n * sxx - sx * sx, 1))
        intercept == RatDiv(RatSub(sy, RatMul(slope, Num(sx, 1))), Num(n, 1))
    IN  <<slope, intercept>>

\* photo_response.py lines 239-244.  A NaN among the values makes both
\* results NaN.
_linear_fit(xs, values) ==
    IF \E i \in 1..Len(values) : values[i].t = "nan" THEN <<NaN, NaN>>
    ELSE LeastSquares(xs, values)

\* photo_response.py lines 247-300, with matplotlib installed: the plots
\* saved by one call (none, or one).
_generate_diagnostic_plot(roi_name, xs, measured, fitted) ==
    IF Len(xs) = 0 \/ Len(measured) = 0 THEN <<>>
    ELSE LET positive_mask == [i \in 1..Len(xs) |-> xs[i] > 0 /\ RatPositive(measured[i])]
         IN  IF \A i \in 1..Len(xs) : ~positive_mask[i] THEN <<>>
             ELSE LET kept_x == Where(xs, positive_mask)
                      kept_fit == IF fitted.t = "none" THEN <<>>
                                  ELSE Where(fitted.values, positive_mask)
                      fit_mask == [i \in 1..Len(kept_fit) |-> RatPositive(kept_fit[i])]
                      has_fit == \E i \in 1..Len(kept_fit) : fit_mask[i]
                  IN  <<[roi_name |-> roi_name,
                         exposures |-> kept_x,
                         measured |-> Where(measured, positive_mask),
                         has_fit |-> has_fit,
                         fitted |-> IF has_fit THEN Where(kept_fit, fit_mask) ELSE <<>>,
                         fit_exposures |-> IF has_fit THEN Where(kept_x, fit_mask)
                                           ELSE kept_x]>>

RoiFitResult(roi_name, slope, intercept, used_points, total_points, saturated_points) ==
    [roi_name |-> roi_name, slope |-> slope, intercept |-> intercept,
     used_points |-> used_points, total_points |-> total_points,
     saturated_points |-> saturated_points]

\* Faulty variant of HasLine: two exposure groups are not fitted.
HasLine_NeedsThree(size) == size >= 3

\* Line 403: exposures.size >= 2.
HasLine(size) == size >= 2

\* What one turn of the fit loop (lines 373-431) computes for an item of
\* sorted(by_roi.items()): the locals exposures and averaged after the turn,
\* the RoiFitResult appended and the plots saved.
FitOf(item, old_exposures, old_averaged) ==
    LET entries == item.entries
        total_points == Len(entries)
        saturated_points == Len(entries) - Len(Unsaturated(entries))
    IN  IF ExposureKeys(entries) = {}
        THEN [exposures |-> old_exposures,
              averaged |-> old_averaged,
              fit |-> RoiFitResult(item.roi_name, NoneValue, NoneValue, 0,
                                   total_points, saturated_points),
              plots |-> <<>>]
        ELSE LET xs == SortedInts(ExposureKeys(entries))
                 ys == [i \in 1..Len(xs) |-> Mean(ExposureGroup(entries, xs[i]))]
                 line == IF HasLine(Len(xs)) THEN _linear_fit(xs, ys)
                         ELSE <<NoneValue, NoneValue>>
                 fitted == IF HasLine(Len(xs))
                           THEN [t |-> "array",
                                 values |-> [i \in 1..Len(xs) |->
                                    RatAdd(RatMul(line[1], Num(xs[i], 1)), line[2])]]
                           ELSE [t |-> "none", values |-> <<>>]
             IN  [exposures |-> xs,
                  averaged |-> ys,
                  fit |-> RoiFitResult(item.roi_name, line[1], line[2], Len(xs),
                                       total_points, saturated_points),
                  plots |-> _generate_diagnostic_plot(item.roi_name, xs, ys, fitted)]

\* The variables no step of analyze_photo_response touches.
idle_vars == <<input_raw, width, height, stride, header, ret, path_exists, data, image,
               metadata, nd_out, records, rois, saturation_threshold, roi_args, roi_file,
               loaded_rois, clip_out>>

\* Faulty variant of BeginAnalysis: base_dir is made before the precondition
\* is tested.
BeginAnalysis_MkdirFirst ==
    /\ pc = "start"
    /\ base_dir_exists' = TRUE
    /\ IF records = <<>>
       THEN pc' = "raised" /\ next_record' = next_record
       ELSE pc' = "measure" /\ next_record' = 1
    /\ UNCHANGED <<idle_vars, all_measurements, fit_vars>>

\* analyze_photo_response lines 326-334: the precondition, then base_dir is
\* made and the loop starts.
BeginAnalysis ==
    /\ pc = "start"
    /\ IF records = <<>>
       THEN pc' = "raised" /\ next_record' = next_record
                           /\ base_dir_exists' = base_dir_exists
       ELSE pc' = "measure" /\ next_record' = 1 /\ base_dir_exists' = TRUE
    /\ UNCHANGED <<idle_vars, all_measurements, fit_vars>>

\* analyze_photo_response lines 335-337: one turn of the loop over the records.
MeasureRecord ==
    /\ pc = "measure"
    /\ next_record <= Len(records)
    /\ LET got == _measure_capture(records[next_record], rois, saturation_threshold,
                                   width, height, stride)
       IN  IF got.raised
           THEN /\ pc' = "raised"
                /\ UNCHANGED <<next_record, all_measurements>>
           ELSE /\ all_measurements' = all_measurements \o got.measurements
                /\ next_record' = next_record + 1
                /\ pc' = IF next_record = Len(records) THEN "measured" ELSE "measure"
    /\ UNCHANGED <<idle_vars, base_dir_exists, fit_vars>>

\* Lines 339-373: the result is built, the CSV is written row by row in the
\* order of result.measurements, and the measurements are grouped per ROI.
WriteCsv ==
    /\ pc = "measured"
    /\ csv_rows' = Written(all_measurements)
    /\ fit_queue' = SortedByRoi(all_measurements)
    /\ pc' = "fit"
    /\ UNCHANGED <<idle_vars, next_record, all_measurements, base_dir_exists,
                   exposures, averaged, fits, plots, summary>>

\* Lines 373-431: one turn of the loop over sorted(by_roi.items()).
FitRoi ==
    /\ pc = "fit"
    /\ fit_queue # <<>>
    /\ LET turn == FitOf(Head(fit_queue), exposures, averaged)
       IN  /\ exposures' = turn.exposures
           /\ averaged' = turn.averaged
           /\ fits' = Append(fits, turn.fit)
           /\ plots' = plots \o turn.plots
    /\ fit_queue' = Tail(fit_queue)
    /\ UNCHANGED <<pc, idle_vars, next_record, all_measurements, base_dir_exists,
                   csv_rows, summary>>

\* Lines 433-441: result.fits is set, the summary is written and the result
\* is returned.
WriteSummary ==
    /\ pc = "fit"
    /\ fit_queue = <<>>
    /\ summary' = Written([saturation_threshold |-> saturation_threshold,
                           measurements |-> all_measurements,
                           fits |-> fits])
    /\ pc' = "returned"
    /\ UNCHANGED <<idle_vars, next_record, all_measurements, base_dir_exists,
                   csv_rows, fit_queue, exposures, averaged, fits, plots>>

NextAnalyze == BeginAnalysis \/ MeasureRecord \/ WriteCsv \/ FitRoi \/ WriteSummary

SpecAnalyze == InitAnalyze /\ [][NextAnalyze]_vars

---------------------------------------------------------------------------
(* Exposure sweeps: batches whose frames are loadable and whose ROIs lie    *)
(* inside the frame, run through the same steps of analyze_photo_response.  *)

FitExposures == {1000, 2000, 4000}

\* The DN of the reference response 0.01 * exposure + 5.
OnLine(exposure) == exposure \div 100 + 5

\* A RAW16 file of n samples whose first sample is first_ and whose other
\* samples are rest_.
Tagged(first_, rest_, n) == [k \in 1..n |-> IF k = 1 THEN first_ ELSE rest_]

\* What the capture at an exposure can hold, for frames of n samples: one
\* frame on the reference response (its first sample saturated), two frames
\* around the response, a frame on the response and a saturated one, a dark
\* frame, or a frame off the response behind a filter of transmission 2.
SweepKinds == {"on", "around", "mixed", "dark", "off"}

SweepChoice(kind, exposure, n) ==
    LET dn == OnLine(exposure)
    IN  CASE kind = "on" ->
               [dir_exists |-> TRUE, files |-> {RawFile(1, Tagged(700, dn, n))}, meta |-> <<>>]
          [] kind = "around" ->
               [dir_exists |-> TRUE,
                files |-> {RawFile(1, Uniform(dn - 2, n)), RawFile(2, Uniform(dn + 2, n))},
                meta |-> <<>>]
          [] kind = "mixed" ->
               [dir_exists |-> TRUE,
                files |-> {RawFile(1, Uniform(dn, n)), RawFile(2, Uniform(700, n))},
                meta |-> <<>>]
          [] kind = "dark" ->
               [dir_exists |-> TRUE, files |-> {RawFile(1, Uniform(0, n))}, meta |-> <<>>]
          [] OTHER ->
               [dir_exists |-> TRUE, files |-> {RawFile(1, Uniform(60, n))},
                meta |-> [k \in {"transmission"} |-> Num(2, 1)]]

\* The batch in reverse order, its records renumbered.
Reversed(batch) ==
    [i \in 1..Len(batch) |-> [batch[Len(batch) + 1 - i] EXCEPT !.raw16_dir = i]]

\* The exposure sequences of a given length in ascending order.
AscendingExposures(len) ==
    {q \in [1..len -> FitExposures] : \A i \in 1..(len - 1) : q[i] <= q[i + 1]}

\* The batches whose i-th record was captured at exposure xs[i].
SweepOver(xs, n) ==
    { [i \in 1..Len(xs) |-> MakeRecord(i, xs[i], SweepChoice(kinds[i], xs[i], n))] :
        kinds \in [1..Len(xs) -> SweepKinds] }

\* Batches of up to MaxSweep records in ascending or descending order of
\* exposure, several records sharing an exposure included.
SweepBatches(n) ==
    LET ascending == UNION { UNION {SweepOver(xs, n) : xs \in AscendingExposures(len)} :
                             len \in 0..MaxSweep }
    IN  ascending \cup {Reversed(b) : b \in ascending}

\* A ROI inside the frame, alone or after a one-sample ROI at the origin.
SweepRois == { <<ROI("a", <<2, 1>>, <<2, 2>>)>>,
               <<ROI("b", <<0, 0>>, <<1, 1>>), ROI("a", <<2, 1>>, <<2, 2>>)>> }

InitFit ==
    /\ pc = "start"
    /\ width = FrameWidth
    /\ height = FrameHeight
    /\ stride = 0
    /\ records \in SweepBatches(width * height)
    /\ rois \in SweepRois
    /\ saturation_threshold = DefaultSaturationThreshold
    /\ next_record = 0
    /\ all_measurements = <<>>
    /\ FitIdle
    /\ RoiIdle
    /\ DecoderIdle
    /\ LoaderIdle
    /\ NdIdle

SpecFit == InitFit /\ [][NextAnalyze]_vars

---------------------------------------------------------------------------
(* The ROI model (src/flare_automation/analysis/roi.py): construction,     *)
(* to_mapping / from_mapping, save_roi_set / load_roi_set and              *)
(* _clip_roi_bounds.                                                       *)

\* JSON values: a string, an integer, an object (a function from its keys to
\* JSON values) or some other value (a number list, null, ...).
JStr(s_) == [t |-> "str", s |-> s_, n |-> 0]
JInt(n_) == [t |-> "int", s |-> "", n |-> n_]
JMap(f) == [t |-> "map", map |-> f]
JOther == [t |-> "other", s |-> "", n |-> 0]

\* Faulty variant of NonPositive: a zero dimension is let through.
NonPositive_ZeroAllowed(size) == size[1] < 0 \/ size[2] < 0

\* roi.py line 25: self.size[0] <= 0 or self.size[1] <= 0.
NonPositive(size) == size[1] <= 0 \/ size[2] <= 0

Built(roi) == [kind |-> "roi", value |-> roi, printed |-> ""]

\* ROI(name=..., center=..., size=...): the dataclass with its __post_init__.
NewROI(name_, center_, size_) ==
    IF NonPositive(size_) THEN Raised("ValueError") ELSE Built(ROI(name_, center_, size_))

\* roi.py lines 28-35.
to_mapping(roi) ==
    [k \in {"name", "center", "size"} |->
        CASE k = "name" -> JStr(roi.name)
          [] k = "center" -> JMap([x |-> JInt(roi.center[1]), y |-> JInt(roi.center[2])])
          [] OTHER -> JMap([width |-> JInt(roi.size[1]), height |-> JInt(roi.size[2])])]

\* What reading data[key] and int(...) of it raises: "" when nothing,
\* ValueError for a missing key (KeyError, lines 51-52) and for a text that
\* is no number, TypeError for a value int() does not take.
FieldError(data_, key) ==
    IF key \notin DOMAIN data_ THEN "ValueError"
    ELSE IF data_[key].t = "int" THEN ""
    ELSE IF data_[key].t = "str" THEN "ValueError"
    ELSE "TypeError"

\* roi.py lines 37-53.
from_mapping(data_) ==
    IF "name" \notin DOMAIN data_ THEN Raised("ValueError")
    ELSE LET center_data == IF "center" \in DOMAIN data_ THEN data_["center"] ELSE JMap(<<>>)
             size_data == IF "size" \in DOMAIN data_ THEN data_["size"] ELSE JMap(<<>>)
         IN  IF center_data.t # "map" \/ size_data.t # "map" THEN Raised("ValueError")
             ELSE LET errors == <<FieldError(center_data.map, "x"),
                                  FieldError(center_data.map, "y"),
                                  FieldError(size_data.map, "width"),
                                  FieldError(size_data.map, "height")>>
                      failed == {k \in 1..4 : errors[k] # ""}
                  IN  IF failed # {}
                      THEN Raised(errors[CHOOSE k \in failed : \A o \in failed : k <= o])
                      ELSE NewROI(data_["name"].s,
                                  <<center_data.map["x"].n, center_data.map["y"].n>>,
                                  <<size_data.map["width"].n, size_data.map["height"].n>>)

\* Faulty variant of SortedByName: the list is kept in the order given.
SortedByName_AsGiven(list) == list

RECURSIVE SortedByName(_)
\* sorted(rois, key=lambda item: item.name): a stable sort, the first of the
\* ROIs with the least name comes first.
SortedByName(list) ==
    IF list = <<>> THEN <<>>
    ELSE LET first == CHOOSE i \in 1..Len(list) :
                        /\ \A j \in 1..Len(list) : NameRank(list[i].name) <= NameRank(list[j].name)
                        /\ \A j \in 1..(i - 1) : NameRank(list[j].name) > NameRank(list[i].name)
         IN  <<list[first]>>
             \o SortedByName(SubSeq(list, 1, first - 1) \o SubSeq(list, first + 1, Len(list)))

\* roi.py lines 90-100: the file save_roi_set writes.
save_roi_set(list) ==
    LET sorted == SortedByName(list)
    IN  [exists |-> TRUE, is_array |-> TRUE,
         payload |-> [k \in 1..Len(sorted) |-> JMap(to_mapping(sorted[k]))]]

RECURSIVE LoadEntries(_, _)
\* roi.py lines 81-85: the loop over the entries, rois_ being the list so far.
LoadEntries(entries, rois_) ==
    IF entries = <<>> THEN Returned(rois_)
    ELSE IF Head(entries).t # "map" THEN Raised("ValueError")
    ELSE LET made == from_mapping(Head(entries).map)
         IN  IF made.kind # "roi" THEN made
             ELSE LoadEntries(Tail(entries), Append(rois_, made.value))

\* roi.py lines 71-87.
load_roi_set(file) ==
    IF ~file.exists THEN Returned(<<>>)
    ELSE IF ~file.is_array THEN Raised("ValueError")
    ELSE LoadEntries(file.payload, <<>>)

\* Faulty variant of FullyOutside: a ROI that only touches the frame's edge
\* is not outside.
FullyOutside_Touching(x0, y0, x1, y1, frame_width, frame_height) ==
    x1 < 0 \/ y1 < 0 \/ x0 > frame_width \/ y0 > frame_height

\* roi.py line 296.
FullyOutside(x0, y0, x1, y1, frame_width, frame_height) ==
    x1 <= 0 \/ y1 <= 0 \/ x0 >= frame_width \/ y0 >= frame_height

\* roi.py lines 290-308, for a frame of shape (frame_height, frame_width).
_clip_roi_bounds(frame_width, frame_height, roi) ==
    LET x0 == bounds(roi)[1]
        y0 == bounds(roi)[2]
        x1 == x0 + bounds(roi)[3]
        y1 == y0 + bounds(roi)[4]
    IN  IF FullyOutside(x0, y0, x1, y1, frame_width, frame_height)
        THEN [is_none |-> TRUE, rect |-> <<>>, warned |-> TRUE]
        ELSE LET clipped_x0 == Max(x0, 0)
                 clipped_y0 == Max(y0, 0)
                 clipped_x1 == Min(x1, frame_width)
                 clipped_y1 == Min(y1, frame_height)
             IN  [is_none |-> FALSE,
                  rect |-> <<clipped_x0, clipped_y0, clipped_x1, clipped_y1>>,
                  warned |-> clipped_x0 # x0 \/ clipped_y0 # y0
                             \/ clipped_x1 # x1 \/ clipped_y1 # y1]

---------------------------------------------------------------------------
(* Inputs and steps of the ROI model.                                      *)

RoiNames == {"a", "b", "c"}

\* Geometries for a single ROI: around the frame, the reference ROI, a
\* negative center with odd sizes, and non-positive sizes.
SingleGeometries ==
    Geometries(FrameWidth, FrameHeight)
        \cup { <<<<50, 50>>, <<10, 10>>>>, <<<<-7, 5>>, <<3, 5>>>>,
               <<<<1, 1>>, <<0, 2>>>>, <<<<1, 1>>, <<2, -1>>>> }

ListGeometries == { <<<<2, 1>>, <<2, 2>>>>, <<<<50, 50>>, <<10, 10>>>>, <<<<1, 1>>, <<0, 2>>>> }

Args(name_, g) == [name |-> name_, center |-> g[1], size |-> g[2]]

\* Argument lists: none, one ROI of any geometry, or 2 to MaxRois ROIs whose
\* names may repeat and come in any order.
RoiArgLists ==
    {<<>>}
    \cup { <<Args("a", g)>> : g \in SingleGeometries }
    \cup UNION { { [k \in 1..len |-> Args(pick[k][1], pick[k][2])] :
                     pick \in [1..len -> RoiNames \X ListGeometries] } :
                 len \in 2..MaxRois }

\* The JSON object a tool other than save_roi_set may have written for given
\* arguments, and the file holding such objects.
RawMapping(a) ==
    [k \in {"name", "center", "size"} |->
        CASE k = "name" -> JStr(a.name)
          [] k = "center" -> JMap([x |-> JInt(a.center[1]), y |-> JInt(a.center[2])])
          [] OTHER -> JMap([width |-> JInt(a.size[1]), height |-> JInt(a.size[2])])]

FileOf(arglist) ==
    [exists |-> TRUE, is_array |-> TRUE,
     payload |-> [k \in 1..Len(arglist) |-> JMap(RawMapping(arglist[k]))]]

\* Malformed files: not an array, an entry that is no object, an entry
\* without name, without size or without a coordinate, a coordinate that is a
\* text or null, each after one well-formed entry.
MalformedFiles ==
    LET good == JMap(RawMapping(Args("a", <<<<2, 1>>, <<2, 2>>>>)))
        base == RawMapping(Args("b", <<<<2, 1>>, <<2, 2>>>>))
        Without(key) == JMap([k \in DOMAIN base \ {key} |-> base[k]])
        WithCenter(c) == JMap([base EXCEPT !["center"] = JMap(c)])
        File(entry) == [exists |-> TRUE, is_array |-> TRUE, payload |-> <<good, entry>>]
    IN  { [exists |-> TRUE, is_array |-> FALSE, payload |-> <<>>],
          File(JOther), File(Without("name")), File(Without("size")),
          File(WithCenter([x |-> JInt(1)])),
          File(WithCenter([x |-> JStr("abc"), y |-> JInt(1)])),
          File(WithCenter([x |-> JInt(1), y |-> JOther])) }

InitRoi ==
    /\ pc \in {"start", "persisted"}
    /\ width = FrameWidth
    /\ height = FrameHeight
    /\ stride = 0
    /\ roi_args \in RoiArgLists
    /\ IF pc = "start" THEN roi_file = NoFile
       ELSE IF roi_args = <<>> THEN roi_file \in MalformedFiles \cup {NoFile, FileOf(<<>>)}
       ELSE roi_file = FileOf(roi_args)
    /\ loaded_rois = NotRun
    /\ clip_out = <<>>
    /\ DecoderIdle
    /\ LoaderIdle
    /\ NdIdle
    /\ EngineIdle

\* The variables the ROI model leaves alone.
roi_idle_vars == <<input_raw, width, height, stride, header, ret, path_exists, data, image,
                   metadata, nd_out, records, saturation_threshold, next_record,
                   all_measurements, base_dir_exists, fit_vars, roi_args>>

\* ROI(...) for each argument triple in turn (roi.py lines 16-26): the first
\* failing construction raises.
ConstructRois ==
    /\ pc = "start"
    /\ LET made == [k \in 1..Len(roi_args) |->
                       NewROI(roi_args[k].name, roi_args[k].center, roi_args[k].size)]
       IN  IF \E k \in 1..Len(made) : made[k].kind # "roi"
           THEN pc' = "raised" /\ rois' = rois
           ELSE pc' = "built" /\ rois' = [k \in 1..Len(made) |-> made[k].value]
    /\ UNCHANGED <<roi_idle_vars, roi_file, loaded_rois, clip_out>>

\* generate_roi_verification_image lines 355-358: bounds() and
\* _clip_roi_bounds of every ROI against a frame of height x width.
ClipRois ==
    /\ pc = "built"
    /\ clip_out' = [k \in 1..Len(rois) |->
                       [bounds |-> bounds(rois[k]),
                        clipped |-> _clip_roi_bounds(width, height, rois[k])]]
    /\ pc' = "clipped"
    /\ UNCHANGED <<roi_idle_vars, rois, roi_file, loaded_rois>>

\* save_roi_set of the ROIs in memory, or of the list just loaded.
SaveRois ==
    /\ pc \in {"clipped", "loaded"}
    /\ roi_file' = save_roi_set(IF pc = "clipped" THEN rois ELSE loaded_rois.value)
    /\ pc' = IF pc = "clipped" THEN "saved" ELSE "resaved"
    /\ UNCHANGED <<roi_idle_vars, rois, loaded_rois, clip_out>>

\* load_roi_set of rois.json as it is on disk.
LoadRois ==
    /\ pc \in {"saved", "resaved", "persisted"}
    /\ loaded_rois' = load_roi_set(roi_file)
    /\ pc' = CASE pc = "saved" -> "loaded" [] pc = "resaved" -> "reloaded" [] OTHER -> "read"
    /\ UNCHANGED <<roi_idle_vars, rois, roi_file, clip_out>>

NextRoi == ConstructRois \/ ClipRois \/ SaveRois \/ LoadRois

SpecRoi == InitRoi /\ [][NextRoi]_vars

---------------------------------------------------------------------------
(* Claims about the ROI model, checked under SpecRoi.                      *)

\* floor(n / 2) for n >= 0, stated without division.
HalfFloor(n) == CHOOSE q \in 0..n : 2 * q <= n /\ n < 2 * q + 2

\* The states in which every ROI of roi_args has been constructed.
Constructed == pc \in {"built", "clipped", "saved", "loaded", "resaved", "reloaded"}

\* C24: bounds() of an ROI with center (cx, cy) and size (w, h) is
\* (cx - floor(w/2), cy - floor(h/2), w, h), for every center, negative ones
\* included, and every positive size, odd or even.
C24_BoundsTopLeft ==
    pc = "clipped" =>
        /\ Len(clip_out) = Len(roi_args)
        /\ \A k \in 1..Len(roi_args) :
              clip_out[k].bounds =
                  <<roi_args[k].center[1] - HalfFloor(roi_args[k].size[1]),
                    roi_args[k].center[2] - HalfFloor(roi_args[k].size[2]),
                    roi_args[k].size[1], roi_args[k].size[2]>>

\* The ROI at (50, 50) of size (10, 10) has bounds (45, 45, 10, 10).
C24_Witness ==
    /\ pc = "clipped"
    /\ roi_args = <<Args("a", <<<<50, 50>>, <<10, 10>>>>)>>
    /\ clip_out[1].bounds = <<45, 45, 10, 10>>

HasNonPositive(arglist) ==
    \E k \in 1..Len(arglist) : arglist[k].size[1] <= 0 \/ arglist[k].size[2] <= 0

AllPositive(list) ==
    \A k \in 1..Len(list) : list[k].size[1] > 0 /\ list[k].size[2] > 0

\* C25: no ROI with a width or height <= 0 exists: constructing one raises,
\* directly or from a persisted entry; a persisted set holding such an entry
\* fails to load as a whole and yields no list.
C25_NoNonPositiveRoi ==
    /\ Constructed => AllPositive(rois)
    /\ (pc # "start" /\ pc # "persisted" /\ pc # "read" /\ HasNonPositive(roi_args))
           => pc = "raised"
    /\ loaded_rois.kind = "array" => AllPositive(loaded_rois.value)
    /\ (pc = "read" /\ roi_args # <<>> /\ HasNonPositive(roi_args))
           => (loaded_rois.kind \notin {"array", "none"} /\ loaded_rois.value = <<>>)

\* A persisted set whose second entry has a width of 0 failed to load.
C25_Witness ==
    /\ pc = "read"
    /\ Len(roi_args) = 2
    /\ roi_args[1].size = <<2, 2>>
    /\ roi_args[2].size = <<0, 2>>
    /\ loaded_rois.kind = "ValueError"

DistinctNames(list) ==
    \A i, j \in 1..Len(list) : list[i].name = list[j].name => i = j

\* out holds exactly the ROIs of inp, in ascending order of name.
IsSortedCopyOf(out, inp) ==
    /\ Len(out) = Len(inp)
    /\ {out[k] : k \in 1..Len(out)} = {inp[k] : k \in 1..Len(inp)}
    /\ \A i, j \in 1..Len(out) : i < j => NameRank(out[i].name) < NameRank(out[j].name)

\* C26: for ROIs with distinct names in any order, save_roi_set followed by
\* load_roi_set returns exactly those ROIs sorted by name, and saving the
\* loaded list and loading again returns the same list (the sorted copy of a
\* list of distinct names is unique).
C26_SaveLoadRoundTrip ==
    (pc \in {"loaded", "reloaded"} /\ DistinctNames(rois))
        => (loaded_rois.kind = "array" /\ IsSortedCopyOf(loaded_rois.value, rois))

\* Three ROIs given in descending order of name came back ascending after
\* the second load.
C26_Witness ==
    /\ pc = "reloaded"
    /\ Len(rois) = 3
    /\ rois[1].name = "c" /\ rois[2].name = "b" /\ rois[3].name = "a"
    /\ loaded_rois.kind = "array"
    /\ loaded_rois.value[1].name = "a"

\* C27: loading a persisted set in which two entries share a name fails with
\* the invalid-ROI-definition error; load_roi_set never returns a list with
\* two equal names.
C27_DuplicateNamesRejected ==
    /\ (pc = "read" /\ roi_args # <<>> /\ ~DistinctNames(roi_args))
           => loaded_rois.kind = "ValueError"
    /\ loaded_rois.kind = "array" => DistinctNames(loaded_rois.value)

\* The pixels (column, row) of the half-open rectangle x0 <= c < x1, y0 <= r < y1.
PixelsOf(x0, y0, x1, y1) == (x0..(x1 - 1)) \X (y0..(y1 - 1))

FramePixels == PixelsOf(0, 0, width, height)

RoiPixels(b) == PixelsOf(b[1], b[2], b[1] + b[3], b[2] + b[4])

\* C28: against a non-empty frame, _clip_roi_bounds returns None exactly when
\* the ROI rectangle and the frame share no pixel; otherwise the rectangle
\* returned is their intersection, is not empty, lies within the frame, and
\* is the ROI rectangle itself when that lies inside the frame.
C28_ClipIsIntersection ==
    pc = "clipped" =>
        \A k \in 1..Len(clip_out) :
            LET b == clip_out[k].bounds
                out == clip_out[k].clipped
                r == out.rect
            IN  /\ out.is_none <=> (RoiPixels(b) \cap FramePixels = {})
                /\ ~out.is_none =>
                      /\ PixelsOf(r[1], r[2], r[3], r[4]) = RoiPixels(b) \cap FramePixels
                      /\ 0 <= r[1] /\ r[1] < r[3] /\ r[3] <= width
                      /\ 0 <= r[2] /\ r[2] < r[4] /\ r[4] <= height
                      /\ (RoiPixels(b) \subseteq FramePixels)
                             => r = <<b[1], b[2], b[1] + b[3], b[2] + b[4]>>

\* An ROI across the frame's edge was clipped to a smaller rectangle.
C28_Witness ==
    /\ pc = "clipped"
    /\ Len(clip_out) = 1
    /\ ~clip_out[1].clipped.is_none
    /\ clip_out[1].clipped.warned
    /\ clip_out[1].clipped.rect # <<clip_out[1].bounds[1], clip_out[1].bounds[2],
                                    clip_out[1].bounds[1] + clip_out[1].bounds[3],
                                    clip_out[1].bounds[2] + clip_out[1].bounds[4]>>

---------------------------------------------------------------------------
(* Claims about unpack_mipi_raw10, checked under SpecUnpack.               *)

\* The buffer after the header skip, and its byte at a 0-based offset.
RawAfterHeader == Drop(input_raw, header)
ByteAt(off) == RawAfterHeader[off + 1]

\* out is an array of exactly rows x cols.
IsGrid(out, rows, cols) ==
    /\ out.kind = "array"
    /\ Len(out.value) = rows
    /\ \A r \in 1..rows : Len(out.value[r]) = cols

\* Offset of the 5-byte group that holds output pixel (r, c), and the pixel's
\* place in the group (both 0-based): every row starts a group in stride mode,
\* the stream is one run of groups without a stride.
GroupStart(r, c) ==
    IF stride > 0 THEN r * stride + 5 * (c \div 4) ELSE 5 * ((r * width + c) \div 4)
Lane(r, c) == IF stride > 0 THEN c % 4 ELSE (r * width + c) % 4

PixelFromGroup(r, c) ==
    4 * ByteAt(GroupStart(r, c) + Lane(r, c))
        + ((ByteAt(GroupStart(r, c) + 4) \div Pow2(2 * Lane(r, c))) % 4)

\* C1: every output pixel of a decode is 4*b_i + ((b4 >> 2i) & 3) of its 5-byte
\* group (b0..b4), pixels in group order; so it lies in 0..1023 and its top 8
\* bits are b_i.
C1_PixelReconstruction ==
    (pc = "done" /\ ret.kind = "array") =>
        \A r \in 0..(Len(ret.value) - 1) : \A c \in 0..(Len(ret.value[r + 1]) - 1) :
            LET p == ret.value[r + 1][c + 1]
            IN  /\ p = PixelFromGroup(r, c)
                /\ p \in 0..1023
                /\ p \div 4 = ByteAt(GroupStart(r, c) + Lane(r, c))

\* A decode whose second group of a row yields a pixel with non-zero low bits
\* that differ from the low bits of the group's first pixel.
C1_Witness ==
    /\ pc = "done"
    /\ ret.kind = "array"
    /\ \E r \in 1..Len(ret.value) : \E c \in 6..Len(ret.value[r]) :
        /\ ret.value[r][c] % 4 # 0
        /\ ret.value[r][c] % 4 # ret.value[r][5] % 4

\* C2: in stride mode, stride*4/5 >= width and at least stride*height bytes
\* after the header give a height x width grid, never an error.
C2_StrideModeReturnsGrid ==
    (/\ pc = "done"
     /\ stride > 0
     /\ 4 * stride >= 5 * width
     /\ Len(RawAfterHeader) >= stride * height)
        => IsGrid(ret, height, width)

\* C3: without a stride, at least width*height*5/4 bytes after the header give
\* a height x width grid decoded from the start of the buffer, whether or not
\* width*height is a multiple of 4.
C3_NoStrideReturnsGrid ==
    (/\ pc = "done"
     /\ stride <= 0
     /\ 4 * Len(RawAfterHeader) >= 5 * width * height)
        => /\ IsGrid(ret, height, width)
           /\ \A r \in 0..(height - 1) : \A c \in 0..(width - 1) :
                ret.value[r + 1][c + 1] = PixelFromGroup(r, c)

\* The least number of bytes that satisfies the size requirement.
RequiredSize == IF stride > 0 THEN stride * height ELSE (5 * width * height + 3) \div 4

\* C4: a buffer one byte shorter (after the header) than the required size
\* fails with a size-mismatch error and returns no pixel data.
C4_OneByteShortFails ==
    (pc = "done" /\ Len(RawAfterHeader) + 1 = RequiredSize) =>
        /\ ret.kind = "minus1"
        /\ ret.value = <<>>
        /\ ret.printed \in {MsgSize, MsgStrideSize}

\* A one-byte-short buffer in stride mode whose stride is also too small for
\* the width: the size error is the one reported.
C4_Witness ==
    /\ pc = "done"
    /\ Len(RawAfterHeader) + 1 = RequiredSize
    /\ stride > 0
    /\ 4 * stride < 5 * width
    /\ header > 0
    /\ ret.printed = MsgStrideSize

\* C5: in stride mode, stride*4/5 < width with at least stride*height bytes
\* fails with the stride/width mismatch error and returns no grid.
C5_StrideWidthMismatchFails ==
    (/\ pc = "done"
     /\ stride > 0
     /\ 4 * stride < 5 * width
     /\ Len(RawAfterHeader) >= stride * height)
        => /\ ret.kind = "minus1"
           /\ ret.value = <<>>
           /\ ret.printed = MsgStrideWidth

\* A full-size buffer whose stride holds one pixel fewer than the width.
C5_Witness ==
    /\ pc = "done"
    /\ stride = 5
    /\ width = 5
    /\ Len(RawAfterHeader) >= stride * height
    /\ ret.printed = MsgStrideWidth

\* The two offsets (0-based, after the header skip) that hold output pixel
\* (r, c) in stride mode.
HighByteOffset(r, c) == r * stride + 5 * (c \div 4) + (c % 4)
LowBitsOffset(r, c) == r * stride + 5 * (c \div 4) + 4

\* buf with the byte at position q (1-based) replaced by v.
WithByte(buf, q, v) == [buf EXCEPT ![q] = v]

\* Buffers that differ from the one decoded: one byte changed anywhere
\* (header, pixel data, row padding, trailing bytes), bytes cut from or added
\* to the end, and a header one byte longer or shorter.
OtherBuffers ==
    { [raw |-> WithByte(input_raw, q, v), header |-> header] :
          q \in 1..Len(input_raw), v \in {0, 255} }
    \cup { [raw |-> Take(input_raw, n), header |-> header] : n \in 0..Len(input_raw) }
    \cup { [raw |-> input_raw \o <<v>>, header |-> header] : v \in {0, 255} }
    \cup { [raw |-> <<v>> \o input_raw, header |-> header + 1] : v \in {0, 255} }
    \cup (IF header > 0 THEN {[raw |-> Drop(input_raw, 1), header |-> header - 1]} ELSE {})

\* Both buffers hold the same byte at an offset after their header skip.
SameByteAt(other, off) == Drop(other.raw, other.header)[off + 1] = ByteAt(off)

\* C29: in stride mode, output pixel (r, c) of a successful decode depends on
\* the bytes at r*stride + 5*floor(c/4) + (c mod 4) and r*stride +
\* 5*floor(c/4) + 4 after the header skip only: a second buffer that decodes
\* with the same width, height and stride and holds the same two bytes gives
\* the same pixel, whatever its other bytes are.
C29_PixelDependsOnTwoBytes ==
    (pc = "done" /\ stride > 0 /\ ret.kind = "array") =>
        \A other \in OtherBuffers :
            LET out == unpack_mipi_raw10(other.raw, width, stride, height, other.header)
            IN  out.kind = "array" =>
                    \A r \in 0..(height - 1) : \A c \in 0..(width - 1) :
                        (SameByteAt(other, HighByteOffset(r, c))
                            /\ SameByteAt(other, LowBitsOffset(r, c)))
                        => out.value[r + 1][c + 1] = ret.value[r + 1][c + 1]

\* A decode of two padded rows whose first padding byte is not 0: the buffer
\* with that byte set to 0 decodes to the same grid.
C29_Witness ==
    /\ pc = "done"
    /\ stride > 0
    /\ stride % 5 # 0
    /\ height = 2
    /\ ret.kind = "array"
    /\ input_raw[header + stride] # 0
    /\ unpack_mipi_raw10(WithByte(input_raw, header + stride, 0), width, stride, height,
                         header) = ret

---------------------------------------------------------------------------
(* Claim about the converter and the loader together, checked under        *)
(* SpecConvert.                                                            *)

\* C30: for every configuration (raw_width, raw_height, raw_stride) the
\* converter accepts in stride mode, the RAW16 file it writes is accepted by
\* load_raw16_image called with the same width, height and stride, and gives
\* a frame of raw_height x raw_width.
C30_ConvertedFileLoads ==
    (pc = "loaded" /\ stride > 0) => IsGrid(image, height, width)

---------------------------------------------------------------------------
(* Claims about load_raw16_image, checked under SpecLoad.                  *)

\* The stride the loader uses: absent or 0 means the width.
StrideUsed == IF stride = 0 THEN width ELSE stride

\* C6: for every stride and a file of at least stride*height samples the grid
\* is height x width and G[r][c] is file sample r*stride + c.
C6_LoadedGrid ==
    (pc = "done" /\ path_exists /\ Len(data) >= StrideUsed * height) =>
        /\ IsGrid(image, height, width)
        /\ \A r \in 0..(height - 1) : \A c \in 0..(width - 1) :
            image.value[r + 1][c + 1] = data[r * StrideUsed + c + 1]

\* C7: an absent path fails with not-found, fewer than stride*height samples
\* with a size mismatch, neither returns a grid; exactly stride*height samples
\* are accepted.
C7_LoadErrors ==
    pc = "done" =>
        /\ ~path_exists => (image.kind = "FileNotFoundError" /\ image.value = <<>>)
        /\ (path_exists /\ Len(data) < StrideUsed * height)
                => (image.kind = "ValueError" /\ image.value = <<>>)
        /\ (path_exists /\ Len(data) = StrideUsed * height) => image.kind = "array"

\* A file of exactly stride*height samples, with more than one row, was loaded.
C7_Witness ==
    /\ pc = "done"
    /\ path_exists
    /\ height > 1
    /\ stride > width
    /\ Len(data) = StrideUsed * height
    /\ image.kind = "array"

---------------------------------------------------------------------------
(* Claims about the measurement engine, checked under SpecAnalyze.         *)

\* The frame a listed RAW16 file yields under the run's configuration, read
\* from the file's samples: the stride the loader uses, whether the file is
\* large enough to load, the frame's extents and its cells (0-based).
EngineStride == IF stride = 0 THEN width ELSE stride
Loads(file) == Len(file.data) >= EngineStride * height
FrameCols == Min(width, EngineStride)
FrameRows == height
FrameCell(file, r, c) == file.data[r * EngineStride + c + 1]

ListedFiles(record) ==
    IF record.raw16_dir_exists THEN {f \in record.raw16_files : f.is_raw_file} ELSE {}

\* The ROI rectangle [X0, X1) x [Y0, Y1).
X0(roi) == bounds(roi)[1]
Y0(roi) == bounds(roi)[2]
X1(roi) == bounds(roi)[1] + bounds(roi)[3]
Y1(roi) == bounds(roi)[2] + bounds(roi)[4]

Intersects(roi) == X0(roi) < FrameCols /\ X1(roi) > 0 /\ Y0(roi) < FrameRows /\ Y1(roi) > 0
Inside(roi) == X0(roi) >= 0 /\ Y0(roi) >= 0 /\ X1(roi) <= FrameCols /\ Y1(roi) <= FrameRows

\* The cells <<r, c>> of the intersection of the ROI rectangle with the frame.
Intersection(roi) ==
    (Max(Y0(roi), 0)..(Min(Y1(roi), FrameRows) - 1))
        \X (Max(X0(roi), 0)..(Min(X1(roi), FrameCols) - 1))

RECURSIVE SumCells(_, _)
SumCells(file, cells) ==
    IF cells = {} THEN 0
    ELSE LET cell == CHOOSE x \in cells : TRUE
         IN  FrameCell(file, cell[1], cell[2]) + SumCells(file, cells \ {cell})

\* mean is the arithmetic mean of the file's frame over cells.
IsMeanOver(mean, file, cells) ==
    mean.t = "num" /\ mean.num * Cardinality(cells) = mean.den * SumCells(file, cells)

\* The positions in all_measurements of the measurements of (record, file, roi).
MeasurementsOf(record, file, roi) ==
    {i \in 1..Len(all_measurements) :
        /\ all_measurements[i].source_file = <<record.raw16_dir, file.path>>
        /\ all_measurements[i].roi_name = roi.name}

\* Every (record, loaded frame, ROI) of the batch.
Pairs ==
    {<<n, f, k>> \in (1..Len(records)) \X (UNION {ListedFiles(records[n]) : n \in 1..Len(records)})
                     \X (1..Len(rois)) :
        f \in ListedFiles(records[n]) /\ Loads(f)}

C9_SaturationStrict ==
    \A i \in 1..Len(all_measurements) :
        LET m == all_measurements[i]
        IN  m.saturated <=> (m.mean_dn.num > saturation_threshold * m.mean_dn.den)

\* A run with a measurement whose mean equals the threshold while its
\* normalised value is above it (not saturated), and one whose mean is above
\* the threshold while its normalised value is below it (saturated).
C9_Witness ==
    /\ \E i \in 1..Len(all_measurements) :
        LET m == all_measurements[i]
        IN  /\ m.mean_dn = Num(saturation_threshold, 1)
            /\ m.normalised_dn.num > saturation_threshold * m.normalised_dn.den
            /\ ~m.saturated
    /\ \E i \in 1..Len(all_measurements) :
        LET m == all_measurements[i]
        IN  /\ m.mean_dn.num > saturation_threshold * m.mean_dn.den
            /\ m.normalised_dn.num < saturation_threshold * m.normalised_dn.den
            /\ m.saturated

\* The record a measurement comes from (source_file starts with its directory).
RecordOf(m) == records[m.source_file[1]]

\* C13: every measurement has normalised_dn = mean_dn / nd_factor with
\* nd_factor > 0, and the measurements of one record all carry the factor
\* derived from that record's metadata.
C13_NormalisedByFactor ==
    \A i \in 1..Len(all_measurements) :
        LET m == all_measurements[i]
        IN  /\ m.nd_factor.t = "num"
            /\ m.nd_factor.num > 0
            /\ m.normalised_dn.t = "num"
            /\ m.normalised_dn.num * m.nd_factor.num * m.mean_dn.den
                  = m.mean_dn.num * m.nd_factor.den * m.normalised_dn.den
            /\ \A j \in 1..Len(all_measurements) :
                  all_measurements[j].source_file[1] = m.source_file[1]
                      => all_measurements[j].nd_factor = m.nd_factor

\* The 1-based position of a path in the ascending listing of a record's
\* RAW16 files.
PositionInListing(record, path_) ==
    Cardinality({f \in ListedFiles(record) : f.path <= path_})

\* C14: a measurement taken from the k-th file of the ascending path order
\* carries frame_index = k, whether or not earlier files loaded, and a
\* record's measurements appear in that order.
C14_FrameIndexByPosition ==
    \A i \in 1..Len(all_measurements) :
        LET m == all_measurements[i]
        IN  /\ m.frame_index = PositionInListing(RecordOf(m), m.source_file[2])
            /\ \A j \in i..Len(all_measurements) :
                  all_measurements[j].source_file[1] = m.source_file[1]
                      => m.frame_index <= all_measurements[j].frame_index

\* A run with a measurement from the second file of a listing whose first
\* file failed to load, and a record measured on two frames.
C14_Witness ==
    /\ \E i \in 1..Len(all_measurements) :
        LET m == all_measurements[i]
        IN  /\ m.frame_index = 2
            /\ \E f \in ListedFiles(RecordOf(m)) : f.path < m.source_file[2] /\ ~Loads(f)
    /\ \E i \in 1..Len(all_measurements) : \E j \in 1..Len(all_measurements) :
        /\ i < j
        /\ all_measurements[i].source_file[1] = all_measurements[j].source_file[1]
        /\ all_measurements[i].frame_index = 1
        /\ all_measurements[j].frame_index = 2

\* The measurements a batch must yield: one for every record, every listed
\* file that loads and every ROI whose window is accepted, none for the rest.
ExactlyTheValidPairs ==
    /\ \A p \in Pairs :
          Cardinality(MeasurementsOf(records[p[1]], p[2], rois[p[3]]))
              = IF Inside(rois[p[3]]) THEN 1 ELSE 0
    /\ \A i \in 1..Len(all_measurements) :
          \E p \in Pairs : i \in MeasurementsOf(records[p[1]], p[2], rois[p[3]])

\* C15: a run over one or more records never aborts, whatever directories
\* are missing or empty, files fail to load or windows are rejected; when it
\* returns, every other (record, frame, ROI) has exactly one measurement and
\* the failing ones have none.
C15_FailureIsolation ==
    /\ records # <<>> => pc # "raised"
    /\ pc = "returned" => (ExactlyTheValidPairs /\ summary.written)

\* C16: with zero records the run raises before anything is done: no
\* directory is made, nothing is measured, written or fitted, and the run
\* never returns.
C16_ZeroRecordsFatal ==
    records = <<>> =>
        /\ pc \in {"start", "raised"}
        /\ ~base_dir_exists
        /\ all_measurements = <<>>
        /\ ~csv_rows.written
        /\ ~summary.written
        /\ fits = <<>>
        /\ plots = <<>>

C16_Witness == records = <<>> /\ pc = "raised"

\* The names of the ROIs supplied to the run.
SuppliedNames == {rois[k].name : k \in 1..Len(rois)}

\* C21: when the run returns, the fit table holds exactly one RoiFit per ROI
\* supplied, in ascending roi_name order, also for a ROI without any
\* measurement.
C21_OneFitPerRoi ==
    pc = "returned" =>
        /\ {fits[k].roi_name : k \in 1..Len(fits)} = SuppliedNames
        /\ Len(fits) = Cardinality(SuppliedNames)
        /\ \A k \in 1..(Len(fits) - 1) :
              NameRank(fits[k].roi_name) < NameRank(fits[k + 1].roi_name)

\* The rows of a table that carry a ROI name, in the table's order.
RowsOf(rows, name) == LET Named(m) == m.roi_name = name IN SelectSeq(rows, Named)

\* C22: the measurement table is written with its rows sorted by roi_name,
\* the rows of one ROI in their insertion order.
C22_CsvSortedByRoi ==
    csv_rows.written =>
        LET rows == csv_rows.content
        IN  /\ Len(rows) = Len(all_measurements)
            /\ \A k \in 1..(Len(rows) - 1) :
                  NameRank(rows[k].roi_name) <= NameRank(rows[k + 1].roi_name)
            /\ \A name \in SuppliedNames :
                  RowsOf(rows, name) = RowsOf(all_measurements, name)

---------------------------------------------------------------------------
(* Claims about the fits, checked under SpecFit.                           *)

\* The positions in all_measurements of the unsaturated measurements of a
\* ROI, all of them or those at one exposure, and the ROI's distinct
\* unsaturated exposures.
UsablePoints(name) ==
    {i \in 1..Len(all_measurements) :
        all_measurements[i].roi_name = name /\ ~all_measurements[i].saturated}
UsablePointsAt(name, exposure) ==
    {i \in UsablePoints(name) : all_measurements[i].exposure_us = exposure}
UsableExposures(name) == {all_measurements[i].exposure_us : i \in UsablePoints(name)}

IsAbsent(v) == v.t = "none"

\* C17: a RoiFit has neither slope nor intercept when its ROI has fewer than
\* 2 distinct exposures among its unsaturated measurements, and has both
\* otherwise.
C17_SlopeIffTwoGroups ==
    \A k \in 1..Len(fits) :
        IF Cardinality(UsableExposures(fits[k].roi_name)) < 2
        THEN IsAbsent(fits[k].slope) /\ IsAbsent(fits[k].intercept)
        ELSE ~IsAbsent(fits[k].slope) /\ ~IsAbsent(fits[k].intercept)

\* A run that fitted a ROI measured unsaturated at one exposure only (in two
\* records) without a slope, and a ROI with two exposures with a slope.
C17_Witness ==
    /\ pc = "returned"
    /\ \E k \in 1..Len(fits) :
        /\ Cardinality(UsableExposures(fits[k].roi_name)) = 1
        /\ Cardinality(UsablePoints(fits[k].roi_name)) >= 2
        /\ IsAbsent(fits[k].slope)
    /\ \E k \in 1..Len(fits) :
        /\ Cardinality(UsableExposures(fits[k].roi_name)) = 2
        /\ ~IsAbsent(fits[k].slope)

\* C18: with exactly one unsaturated exposure group the RoiFit is reported as
\* for zero groups: no slope, no intercept, used_points = 0.
C18_OneGroupReportsZero ==
    \A k \in 1..Len(fits) :
        Cardinality(UsableExposures(fits[k].roi_name)) = 1 =>
            /\ IsAbsent(fits[k].slope)
            /\ IsAbsent(fits[k].intercept)
            /\ fits[k].used_points = 0

\* The fit appended by the latest turn of the fit loop, and whether the
\* locals exposures and averaged are those of its ROI (they are left as they
\* were by a turn that finds no unsaturated measurement).
LastFit == fits[Len(fits)]
LastHasGroups == fits # <<>> /\ UsableExposures(LastFit.roi_name) # {}

SameNumber(a, b) == a.t = "num" /\ b.t = "num" /\ a.num * b.den = b.num * a.den

RECURSIVE SumOfNormalised(_)
\* The sum of normalised_dn over a set of positions of all_measurements.
SumOfNormalised(positions) ==
    IF positions = {} THEN Num(0, 1)
    ELSE LET i == CHOOSE x \in positions : TRUE
         IN  RatAdd(all_measurements[i].normalised_dn, SumOfNormalised(positions \ {i}))

\* C19: the fit points of a ROI are one per distinct exposure among its
\* unsaturated measurements, in ascending order, each the arithmetic mean of
\* normalised_dn over all unsaturated measurements of the ROI at that
\* exposure; with 2 or more groups used_points is the number of groups.
C19_GroupMeans ==
    /\ LastHasGroups =>
          LET name == LastFit.roi_name
          IN  /\ Len(exposures) = Cardinality(UsableExposures(name))
              /\ {exposures[i] : i \in 1..Len(exposures)} = UsableExposures(name)
              /\ \A i \in 1..(Len(exposures) - 1) : exposures[i] < exposures[i + 1]
              /\ Len(averaged) = Len(exposures)
              /\ \A i \in 1..Len(exposures) :
                    LET group == UsablePointsAt(name, exposures[i])
                    IN  SameNumber(RatMul(averaged[i], Num(Cardinality(group), 1)),
                                   SumOfNormalised(group))
    /\ \A k \in 1..Len(fits) :
          Cardinality(UsableExposures(fits[k].roi_name)) >= 2
              => fits[k].used_points = Cardinality(UsableExposures(fits[k].roi_name))

\* A ROI fitted on 2 groups, one of them averaged over 3 unsaturated
\* measurements from two records, with a saturated measurement left out.
C19_Witness ==
    /\ LastHasGroups
    /\ Len(exposures) = 2
    /\ LastFit.used_points = 2
    /\ \E i \in 1..2 : Cardinality(UsablePointsAt(LastFit.roi_name, exposures[i])) = 3
    /\ \E i \in 1..Len(all_measurements) :
          /\ all_measurements[i].roi_name = LastFit.roi_name
          /\ all_measurements[i].saturated
          /\ all_measurements[i].exposure_us \in UsableExposures(LastFit.roi_name)

\* averaged[i] - slope * exposures[i] - intercept
Residual(i) ==
    RatSub(RatSub(averaged[i], RatMul(LastFit.slope, Num(exposures[i], 1))), LastFit.intercept)

\* The fit points lie on one line.
Collinear ==
    \A i \in 1..Len(exposures) :
        SameNumber(RatMul(RatSub(averaged[i], averaged[1]), Num(exposures[2] - exposures[1], 1)),
                   RatMul(RatSub(averaged[2], averaged[1]), Num(exposures[i] - exposures[1], 1)))

\* C20: with 2 or more groups the reported slope and intercept are the
\* least-squares solution over the averaged points (the residuals sum to 0
\* and are orthogonal to the exposures); for points on a line
\* DN = a * exposure + b they are a and b.
C20_LeastSquaresFit ==
    (LastHasGroups /\ Len(exposures) >= 2) =>
        /\ SameNumber(RatSum([i \in 1..Len(exposures) |-> Residual(i)]), Num(0, 1))
        /\ SameNumber(RatSum([i \in 1..Len(exposures) |->
                                 RatMul(Num(exposures[i], 1), Residual(i))]), Num(0, 1))
        /\ Collinear =>
              /\ SameNumber(RatMul(LastFit.slope, Num(exposures[2] - exposures[1], 1)),
                            RatSub(averaged[2], averaged[1]))
              /\ \A i \in 1..Len(exposures) : SameNumber(Residual(i), Num(0, 1))

\* The reference sweep: exposures 1000, 2000, 4000 on DN = 0.01 * exposure + 5
\* fitted with slope 0.01 and intercept 5.
C20_Witness ==
    /\ LastHasGroups
    /\ exposures = <<1000, 2000, 4000>>
    /\ averaged = <<Num(15, 1), Num(25, 1), Num(45, 1)>>
    /\ LastFit.slope = Num(1, 100)
    /\ LastFit.intercept = Num(5, 1)

\* A number above zero (NaN is not).
StrictlyPositive(v) == v.t = "num" /\ v.num * v.den > 0

\* The exposures of a ROI's fit points whose pair (exposure, group mean) is
\* strictly positive in both values.
PositiveExposures(name) ==
    {x \in UsableExposures(name) :
        x > 0 /\ StrictlyPositive(SumOfNormalised(UsablePointsAt(name, x)))}

\* The positions in plots of the diagnostic outputs of a ROI.
PlotsOf(name) == {k \in 1..Len(plots) : plots[k].roi_name = name}

\* C23: a ROI's diagnostic output is produced after its fit, at most once,
\* only when it has a strictly positive (exposure, measured) pair, and holds
\* only such pairs (and only positive fitted values); nothing is emitted for a
\* ROI without a positive pair or without exposure groups.
C23_DiagnosticsPositiveOnly ==
    /\ \A k \in 1..Len(plots) : \E j \in 1..Len(fits) : fits[j].roi_name = plots[k].roi_name
    /\ \A j \in 1..Len(fits) :
          LET name == fits[j].roi_name
          IN  /\ Cardinality(PlotsOf(name)) <= 1
              /\ PositiveExposures(name) = {} => PlotsOf(name) = {}
              /\ \A k \in PlotsOf(name) :
                    /\ plots[k].exposures # <<>>
                    /\ Len(plots[k].measured) = Len(plots[k].exposures)
                    /\ \A i \in 1..Len(plots[k].exposures) :
                          LET x == plots[k].exposures[i]
                          IN  /\ x \in PositiveExposures(name)
                              /\ StrictlyPositive(plots[k].measured[i])
                              /\ SameNumber(
                                    RatMul(plots[k].measured[i],
                                           Num(Cardinality(UsablePointsAt(name, x)), 1)),
                                    SumOfNormalised(UsablePointsAt(name, x)))
                    /\ \A i \in 1..Len(plots[k].fitted) : StrictlyPositive(plots[k].fitted[i])

\* A returned run with a ROI plotted without one of its fit points (a dark
\* exposure) and a ROI fitted on dark points only, for which nothing is
\* emitted.
C23_Witness ==
    /\ pc = "returned"
    /\ \E k \in 1..Len(plots) :
          Len(plots[k].exposures) < Cardinality(UsableExposures(plots[k].roi_name))
    /\ \E j \in 1..Len(fits) :
          /\ UsableExposures(fits[j].roi_name) # {}
          /\ PlotsOf(fits[j].roi_name) = {}

---------------------------------------------------------------------------
(* Claims about the ND factor derivation, checked under SpecNd.            *)

\* The candidate a top-level key or a key of the nd_filter block holds.
TopCandidate(k) == Get(metadata, k)
FilterCandidate(k) ==
    IF Get(metadata, "nd_filter").t = "map"
    THEN Get(Get(metadata, "nd_filter").map, k)
    ELSE NoneValue

\* A valid factor is a positive number; a valid density is a number D whose
\* 10^(-D) is positive (as a double, 10^(-D) is 0 from D = 324 on).
ValidFactor(v) == v.t = "num" /\ v.num > 0
ValidDensity(v) == v.t = "num" /\ v.num < 324

\* 10^(-D) for a valid density D; beyond the range of a double it is only
\* known to be a number larger than every double.
FactorOfDensity(v) ==
    IF v.num <= -309 THEN [t |-> "num", num |-> 1, den |-> 0]
    ELSE IF v.num >= 0 THEN Num(1, Pow10(v.num))
    ELSE Num(Pow10(-v.num), 1)

ValidDirect == {i \in 1..Len(direct_keys) : ValidFactor(TopCandidate(direct_keys[i]))}
ValidFilterFactors ==
    {k \in {"factor", "nd_factor", "attenuation", "transmission"} :
        ValidFactor(FilterCandidate(k))}
ValidFilterDensities ==
    {k \in {"nd_density", "density", "optical_density"} : ValidDensity(FilterCandidate(k))}

\* C10: the first valid candidate wins, in the order (1) top-level nd_factor,
\* nd_attenuation, attenuation, transmission, (2) a factor key of nd_filter,
\* (3) a density key of nd_filter as 10^(-D), (4) the top-level density,
\* (5) 1.0; an invalid candidate (not a positive number) never wins.  Stated
\* for the calls that return.
C10_FirstValidWins ==
    (pc = "done" /\ nd_out.t # "OverflowError") =>
        IF ValidDirect # {}
        THEN nd_out = TopCandidate(direct_keys[CHOOSE i \in ValidDirect :
                                                   \A j \in ValidDirect : i <= j])
        ELSE IF ValidFilterFactors # {}
        THEN nd_out \in {FilterCandidate(k) : k \in ValidFilterFactors}
        ELSE IF ValidFilterDensities # {}
        THEN nd_out \in {FactorOfDensity(FilterCandidate(k)) : k \in ValidFilterDensities}
        ELSE IF ValidDensity(TopCandidate("nd_density"))
        THEN nd_out = FactorOfDensity(TopCandidate("nd_density"))
        ELSE nd_out = One

\* A density whose 10^(-D) is a positive finite double.
RepresentableDensity(v) == v.t = "num" /\ v.num > -309 /\ v.num < 324

\* No candidate of steps 1 to 3 is returned (or raises): the direct keys hold
\* nothing that passes "not <= 0", the nd_filter block holds no positive factor
\* and no density whose power is positive.
NoEarlierMatch ==
    /\ \A i \in 1..Len(direct_keys) :
          LET v == TopCandidate(direct_keys[i])
          IN  v.t # "nan" /\ ~ValidFactor(v)
    /\ ValidFilterFactors = {}
    /\ \A k \in {"nd_density", "density", "optical_density"} :
          LET v == FilterCandidate(k)
          IN  v.t # "num" \/ v.num >= 324

TopDensityKeys == {"nd_density", "density", "optical_density"}

C12_AlwaysPositive ==
    pc = "done" =>
        /\ nd_out.t = "num"
        /\ nd_out.num > 0
        /\ (/\ ValidDirect = {}
            /\ ValidFilterFactors = {}
            /\ ValidFilterDensities = {}
            /\ ~ValidDensity(TopCandidate("nd_density"))) => nd_out = One

====
